---- MODULE Spec2Model ----
(***************************************************************************)
(* AlexAI: the streamed chat turn of app.py (chat / generate_and_save)     *)
(* with the handlers it calls (automation_handler, emotion_handler,        *)
(* memory_handler, gemini_handler) and the tables of models.py.            *)
(*                                                                         *)
(* Text is a sequence of one-character strings, so that lower() and the    *)
(* Python `in` substring test are computed and not assumed.  The three     *)
(* fixed reply literals of app.py are abbreviated to one-token texts.      *)
(***************************************************************************)
EXTENDS Integers, Sequences, FiniteSets, TLC

\* ------------------------------------------------------------------ bounds
MaxTurns == 2
MaxConversations == 1
MaxAutomations == 1
MaxChunks == 2
MaxFaults == 2

\* ------------------------------------------------------------- primitives
Users == {1, 2}

UpperChars == <<"A","B","C","D","E","F","G","H","I","J","K","L","M",
                "N","O","P","Q","R","S","T","U","V","W","X","Y","Z">>
LowerChars == <<"a","b","c","d","e","f","g","h","i","j","k","l","m",
                "n","o","p","q","r","s","t","u","v","w","x","y","z">>

\* str.lower() on one character
LowerChar(c) ==
    IF \E i \in 1..Len(UpperChars) : UpperChars[i] = c
    THEN LowerChars[CHOOSE i \in 1..Len(UpperChars) : UpperChars[i] = c]
    ELSE c

\* str.lower()
Lower(s) == [i \in 1..Len(s) |-> LowerChar(s[i])]

\* Python `t in m` on strings: t occurs as a contiguous substring of m
Contains(t, m) ==
    \E i \in 0..(Len(m) - Len(t)) : SubSeq(m, i + 1, i + Len(t)) = t

\* ----------------------------------------------------------- text literals
t_hello == <<"h","e","l","l","o">>
t_Hi == <<"H","i">>
t_hi_Good_Morning == <<"h","i"," ","G","o","o","d"," ","M","o","r","n","i","n","g","!">>
t_Remember == <<"R","e","m","e","m","b","e","r">>

t_good_morning == <<"g","o","o","d"," ","m","o","r","n","i","n","g">>
t_start_work == <<"s","t","a","r","t"," ","w","o","r","k">>
t_end_work == <<"e","n","d"," ","w","o","r","k">>
t_break_time == <<"b","r","e","a","k"," ","t","i","m","e">>
t_study_session == <<"s","t","u","d","y"," ","s","e","s","s","i","o","n">>

t_remember == <<"r","e","m","e","m","b","e","r">>
t_important == <<"i","m","p","o","r","t","a","n","t">>
t_deadline == <<"d","e","a","d","l","i","n","e">>
t_meeting == <<"m","e","e","t","i","n","g">>
t_appointment == <<"a","p","p","o","i","n","t","m","e","n","t">>

\* app.py:1209, 1261, 1294 -- the three fixed reply texts
UnavailableMsg == <<"AI service is currently unavailable. Please check your API configuration.">>
StreamErrorResponse == <<"I apologize, but I encountered an error while generating a response. Please try again.">>
HandlerErrorMsg == <<"I apologize, but I encountered an error. Please try again.">>

\* request inputs
Prompts == {t_hello, t_hi_Good_Morning}
TriggerPhrases == {t_Hi}
\* the k-th chunk of a provider stream carries the k-th letter; the chunk
\* that fills the stream up to MaxChunks may also come with empty text
ProviderChunks(k) ==
    IF k = MaxChunks THEN {<<>>, <<LowerChars[k]>>} ELSE {<<LowerChars[k]>>}
Titles == {"", "T"}

\* ------------------------------------------------------- automation tables
default_automations ==
    << [trigger |-> t_good_morning,
        actions |-> << [type |-> "weather_update", priority |-> 1],
                       [type |-> "calendar_events", priority |-> 2],
                       [type |-> "daily_motivation", priority |-> 3],
                       [type |-> "news_briefing", priority |-> 4] >>],
       [trigger |-> t_start_work,
        actions |-> << [type |-> "focus_mode", priority |-> 1],
                       [type |-> "productivity_music", priority |-> 2],
                       [type |-> "task_list", priority |-> 3],
                       [type |-> "distraction_blocker", priority |-> 4] >>],
       [trigger |-> t_end_work,
        actions |-> << [type |-> "work_summary", priority |-> 1],
                       [type |-> "tomorrow_prep", priority |-> 2],
                       [type |-> "relaxation_mode", priority |-> 3],
                       [type |-> "evening_routine", priority |-> 4] >>],
       [trigger |-> t_break_time,
        actions |-> << [type |-> "break_timer", duration |-> 15, priority |-> 1],
                       [type |-> "relaxing_music", priority |-> 2],
                       [type |-> "stretch_reminder", priority |-> 3],
                       [type |-> "hydration_reminder", priority |-> 4] >>],
       [trigger |-> t_study_session,
        actions |-> << [type |-> "focus_timer", duration |-> 25, priority |-> 1],
                       [type |-> "study_music", priority |-> 2],
                       [type |-> "note_taking_setup", priority |-> 3],
                       [type |-> "progress_tracking", priority |-> 4] >>] >>

\* suggestion lists generate_proactive_suggestions may return
SuggestionLists == {<<>>, <<[type |-> "break_reminder", priority |-> "medium"]>>}

CustomActionLists == { << [type |-> "note", priority |-> 1] >> }

\* columns the ORM class TaskAutomation maps
TaskAutomationColumns ==
    {"id", "user_id", "trigger_phrase", "actions", "is_active", "created_at"}

\* names bound in the module namespace of utils/emotion_handler.py
EmotionHandlerGlobals ==
    {"datetime", "timedelta", "current_app", "db", "EmotionLog",
     "TextBlob", "TEXTBLOB_AVAILABLE", "EmotionAnalyzer"}

MemoryKeywords == {t_remember, t_important, t_deadline, t_meeting, t_appointment}

\* ------------------------------------------------------------------ state
VARIABLES
    conversation,       \* table conversation: rows [id, user_id, title]
    message,            \* table message: rows [conversation_id, role, content]
    user_memory,        \* table user_memory
    task_automation,    \* table task_automation
    emotion_log,        \* table emotion_log
    pc,                 \* position of the request / generator
    user_id,            \* current_user.id of the request
    conversation_id,    \* form field conversation_id (0 = missing)
    user_prompt,        \* form field prompt
    is_first_exchange,  \* local of generate_and_save
    triggered_actions,  \* local of generate_and_save
    relevant_memories,  \* local of generate_and_save (set of row indices)
    full_bot_response,  \* local of generate_and_save
    chunks_read,        \* chunks the provider stream has produced so far
    events,             \* SSE frames sent to the client in this request
    response,           \* HTTP status of the request (0 = none yet)
    escaped,            \* an exception left the generator
    turn_no,            \* number of requests made so far
    raised,             \* history: what raised during this request
    persisted,          \* history: message rows this request added
    title_writes,       \* history: conversation id -> number of title writes
    faults,             \* number of environment faults injected so far
    proactive_suggestions, \* local of generate_and_save
    ct,                 \* history: this request's check_triggers call
    trigger_matches,    \* history: automation id -> calls of check_triggers
                        \* whose message held its trigger phrase
    call,               \* a direct call of a handler method: its name,
                        \* arguments and, once it returned, its result
    user,               \* table user: rows [username, request]
    requests,           \* the registration requests: route, form fields,
                        \* position and answer of each
    turns               \* chat requests served at the same time: the
                        \* locals and position of each generator

vars == <<conversation, message, user_memory, task_automation, emotion_log,
          pc, user_id, conversation_id, user_prompt, is_first_exchange,
          triggered_actions, relevant_memories, full_bot_response,
          chunks_read, events, response, escaped, turn_no, raised,
          persisted, title_writes, faults, proactive_suggestions, ct,
          trigger_matches, call, user, requests, turns>>

tables == <<conversation, message, user_memory, task_automation, emotion_log>>
locals == <<user_id, conversation_id, user_prompt, is_first_exchange,
            triggered_actions, relevant_memories, full_bot_response,
            chunks_read, proactive_suggestions>>
hist == <<ct, trigger_matches>>
\* variables the requests of app.py leave alone
registration == <<user, requests>>
others == <<call, registration, turns>>

\* no direct call of a handler method is under way
NoCall == [fn |-> "none"]

Frame(ev, txt) == [event |-> ev, text |-> txt]

\* rows of a conversation, in table order (Conversation.messages)
RECURSIVE MessagesOf(_, _)
MessagesOf(tbl, cid) ==
    IF tbl = <<>> THEN <<>>
    ELSE LET rest == MessagesOf(Tail(tbl), cid)
         IN IF Head(tbl).conversation_id = cid THEN <<Head(tbl)>> \o rest ELSE rest

\* db.session.get(Conversation, id): the row or none
HasConversation(cid) == cid \in 1..Len(conversation)

\* every variable but the conversation table and its write counts
MaxRequests == 2

Requests == 1..MaxRequests

\* chat requests that may be served at the same time
MaxOverlap == 2

TurnIds == 1..MaxOverlap

\* a chat request that was not made yet
NoTurn == [pc |-> "idle", user_id |-> 0, conversation_id |-> 0,
           is_first_exchange |-> FALSE, relevant_memories |-> {},
           user_row |-> 0, history |-> <<>>, full_bot_response |-> <<>>,
           events |-> <<>>, overlapped |-> FALSE]

\* a registration request that was not made yet
NoRequest == [route |-> "none", username |-> "amy", is_json |-> FALSE, pc |-> "idle",
              passed_check |-> FALSE, status |-> 0, error |-> FALSE]

InitOther ==
    /\ user = <<>>
    /\ turns = [t \in TurnIds |-> NoTurn]
    /\ requests = [r \in Requests |-> NoRequest]
    /\ message = <<>>
    /\ user_memory = <<>>
    /\ task_automation = <<>>
    /\ emotion_log = <<>>
    /\ pc = "idle"
    /\ user_id = 1
    /\ conversation_id = 0
    /\ user_prompt = <<>>
    /\ is_first_exchange = FALSE
    /\ triggered_actions = <<>>
    /\ relevant_memories = {}
    /\ full_bot_response = <<>>
    /\ chunks_read = 0
    /\ events = <<>>
    /\ response = 0
    /\ escaped = FALSE
    /\ turn_no = 0
    /\ raised = {}
    /\ persisted = <<>>
    /\ faults = 0
    /\ proactive_suggestions = <<>>
    /\ ct = [called |-> FALSE, fired |-> {}]
    /\ trigger_matches = <<>>

Init ==
    /\ call = NoCall
    /\ conversation = <<>>
    /\ title_writes = <<>>
    /\ InitOther

\* the empty database, or the database after GET / by user 1
InitTurns ==
    /\ call = NoCall
    /\ conversation \in {<<>>, <<[id |-> 1, user_id |-> 1, title |-> "New Conversation"]>>}
    /\ title_writes = [i \in 1..Len(conversation) |-> 0]
    /\ InitOther

Idle == pc \in {"idle", "done"}

\* outcomes of a call that the environment can make fail (a commit, the
\* similarity library); at most MaxFaults such failures are injected
Outcomes == IF faults < MaxFaults THEN BOOLEAN ELSE {TRUE}


\* ------------------------------------------------------------- persistence
\* the row save_message_to_db adds and commits
MessageRow(cid, role, content) ==
    [conversation_id |-> cid, role |-> role, content |-> content]

\* MemoryManager.store_memory: one UserMemory row, committed
StoredMemory(uid, memory_type, key, value, importance) ==
    Append(user_memory, [user_id |-> uid, memory_type |-> memory_type,
                         key |-> key, value |-> value,
                         importance_score |-> importance])

\* ----------------------------------------------------------- other requests
\* GET / : creates a conversation for the logged-in user
index(u) ==
    /\ UNCHANGED others
    /\ Idle
    /\ Len(conversation) < MaxConversations
    /\ \E commit_ok \in Outcomes :
         IF commit_ok
         THEN /\ conversation' = Append(conversation,
                    [id |-> Len(conversation) + 1, user_id |-> u,
                     title |-> "New Conversation"])
              /\ title_writes' = Append(title_writes, 0)
              /\ UNCHANGED faults
         ELSE /\ faults' = faults + 1
              /\ UNCHANGED <<conversation, title_writes>>
    /\ UNCHANGED <<message, user_memory, task_automation, emotion_log, pc,
                   locals, events, response, escaped, turn_no, hist, raised, persisted>>

\* TaskAutomationManager.create_automation
create_automation(u, trigger_phrase, actions) ==
    /\ UNCHANGED others
    /\ Idle
    /\ Len(task_automation) < MaxAutomations
    /\ task_automation' = Append(task_automation,
           [id |-> Len(task_automation) + 1, user_id |-> u,
            trigger_phrase |-> Lower(trigger_phrase), actions |-> actions,
            is_active |-> TRUE])
    /\ trigger_matches' = Append(trigger_matches, 0)
    /\ UNCHANGED <<conversation, message, user_memory, emotion_log, pc, ct,
                   locals, events, response, escaped, turn_no, raised,
                   persisted, title_writes, faults>>

\* ------------------------------------------------------------ POST /chat
\* chat without the ownership test
chat_any_owner(u, cid, prompt) ==
    /\ UNCHANGED others
    /\ Idle
    /\ turn_no < MaxTurns
    /\ turn_no' = turn_no + 1
    /\ user_id' = u
    /\ conversation_id' = cid
    /\ user_prompt' = prompt
    /\ is_first_exchange' = FALSE
    /\ triggered_actions' = <<>>
    /\ relevant_memories' = {}
    /\ full_bot_response' = <<>>
    /\ chunks_read' = 0
    /\ events' = <<>>
    /\ escaped' = FALSE
    /\ raised' = {}
    /\ persisted' = <<>>
    /\ proactive_suggestions' = <<>>
    /\ ct' = [called |-> FALSE, fired |-> {}]
    /\ UNCHANGED trigger_matches
    /\ IF cid = 0
       THEN /\ response' = 400
            /\ pc' = "done"
       ELSE IF ~HasConversation(cid)
       THEN /\ response' = 403
            /\ pc' = "done"
       ELSE /\ response' = 200
            /\ pc' = "emotion"
    /\ UNCHANGED <<tables, title_writes, faults>>

\* the request handler up to the return of the streaming Response
chat(u, cid, prompt) ==
    /\ UNCHANGED others
    /\ Idle
    /\ turn_no < MaxTurns
    /\ turn_no' = turn_no + 1
    /\ user_id' = u
    /\ conversation_id' = cid
    /\ user_prompt' = prompt
    /\ is_first_exchange' = FALSE
    /\ triggered_actions' = <<>>
    /\ relevant_memories' = {}
    /\ full_bot_response' = <<>>
    /\ chunks_read' = 0
    /\ events' = <<>>
    /\ escaped' = FALSE
    /\ raised' = {}
    /\ persisted' = <<>>
    /\ proactive_suggestions' = <<>>
    /\ ct' = [called |-> FALSE, fired |-> {}]
    /\ UNCHANGED trigger_matches
    /\ IF cid = 0
       THEN /\ response' = 400
            /\ pc' = "done"
       ELSE IF ~HasConversation(cid) \/ conversation[cid].user_id # u
       THEN /\ response' = 403
            /\ pc' = "done"
       ELSE /\ response' = 200
            /\ pc' = "emotion"
    /\ UNCHANGED <<tables, title_writes, faults>>

\* raise inside the try block of generate_and_save
Raise(label) ==
    /\ pc' = "except_yield"
    /\ raised' = raised \cup label
    /\ UNCHANGED faults

\* the same, for an exception the environment injected
RaiseFault(label) ==
    /\ pc' = "except_yield"
    /\ raised' = raised \cup label
    /\ faults' = faults + 1

\* 1. conversation lookup, is_first_exchange, analyze_emotion, emotion event
StepEmotion ==
    /\ UNCHANGED others
    /\ pc = "emotion"
    /\ IF ~HasConversation(conversation_id)
       THEN /\ Raise({"ValueError"})
            /\ UNCHANGED <<is_first_exchange, emotion_log, events>>
       ELSE /\ is_first_exchange' = (Len(MessagesOf(message, conversation_id)) = 0)
            /\ \E commit_ok \in Outcomes :
                 IF commit_ok
                 THEN /\ emotion_log' = Append(emotion_log,
                             [user_id |-> user_id, conversation_id |-> conversation_id])
                      /\ events' = Append(events, Frame("emotion", <<>>))
                      /\ pc' = "automation"
                      /\ UNCHANGED <<raised, faults>>
                 ELSE \* except branch of analyze_emotion: logging.error(...)
                      IF "logging" \in EmotionHandlerGlobals
                      THEN /\ events' = Append(events, Frame("emotion", <<>>))
                           /\ pc' = "automation"
                           /\ raised' = raised \cup {"emotion_log_commit"}
                           /\ faults' = faults + 1
                           /\ UNCHANGED emotion_log
                      ELSE /\ RaiseFault({"emotion_log_commit", "NameError"})
                           /\ UNCHANGED <<emotion_log, events>>
    /\ UNCHANGED <<conversation, message, user_memory, task_automation,
                   user_id, conversation_id, user_prompt, proactive_suggestions, triggered_actions,
                   relevant_memories, full_bot_response, chunks_read,
                   response, escaped, turn_no, hist, persisted, title_writes>>


\* ------------------------------------------------------- check_triggers
\* indices of the caller's active automations whose phrase is in the message
MatchedCustom(uid, msg) ==
    {i \in 1..Len(task_automation) :
        /\ task_automation[i].user_id = uid
        /\ task_automation[i].is_active
        /\ Contains(task_automation[i].trigger_phrase, Lower(msg))}

\* triggered_actions.extend(automation.actions) over the matched rows, in order
RECURSIVE CustomActions(_, _, _)
CustomActions(uid, msg, i) ==
    IF i > Len(task_automation) THEN <<>>
    ELSE (IF i \in MatchedCustom(uid, msg) THEN task_automation[i].actions ELSE <<>>)
         \o CustomActions(uid, msg, i + 1)

\* the loop over self.default_automations.items()
RECURSIVE DefaultActions(_, _)
DefaultActions(msg, i) ==
    IF i > Len(default_automations) THEN <<>>
    ELSE (IF Contains(default_automations[i].trigger, Lower(msg))
          THEN default_automations[i].actions ELSE <<>>)
         \o DefaultActions(msg, i + 1)

MatchedDefault(msg) ==
    {i \in 1..Len(default_automations) :
        Contains(default_automations[i].trigger, Lower(msg))}

\* automation.usage_count += 1 on a matched row
UsageUpdated(tbl, S) ==
    [i \in 1..Len(tbl) |->
        IF i \in S THEN [tbl[i] EXCEPT !.usage_count = @ + 1] ELSE tbl[i]]

\* 2. check_triggers, execute_actions, automation event
StepAutomation ==
    /\ UNCHANGED others
    /\ pc = "automation"
    /\ LET matched == MatchedCustom(user_id, user_prompt)
           result  == CustomActions(user_id, user_prompt, 1)
                        \o DefaultActions(user_prompt, 1)
           phrases == {task_automation[i].trigger_phrase : i \in matched}
                        \cup {default_automations[i].trigger :
                                 i \in MatchedDefault(user_prompt)}
       IN /\ trigger_matches' = [i \in DOMAIN trigger_matches |->
                IF i \in matched THEN trigger_matches[i] + 1
                ELSE trigger_matches[i]]
          /\ IF matched # {} /\ "usage_count" \notin TaskAutomationColumns
             THEN \* reading automation.usage_count raises AttributeError
               /\ Raise({"AttributeError"})
               /\ ct' = [called |-> TRUE, fired |-> {}]
               /\ UNCHANGED <<task_automation, triggered_actions, events>>
             ELSE \E commit_ok \in Outcomes :
               IF matched # {} /\ ~commit_ok
               THEN /\ RaiseFault({"automation_commit"})
                    /\ ct' = [called |-> TRUE, fired |-> {}]
                    /\ UNCHANGED <<task_automation, triggered_actions, events>>
               ELSE /\ commit_ok
                    /\ task_automation' = UsageUpdated(task_automation, matched)
                    /\ triggered_actions' = result
                    /\ ct' = [called |-> TRUE, fired |-> phrases]
                    /\ events' = IF result # <<>>
                                 THEN Append(events, Frame("automation", <<>>))
                                 ELSE events
                    /\ pc' = "memory"
                    /\ UNCHANGED <<raised, faults>>
    /\ UNCHANGED <<conversation, message, user_memory, emotion_log,
                   user_id, conversation_id, user_prompt, proactive_suggestions, is_first_exchange,
                   relevant_memories, full_bot_response, chunks_read,
                   response, escaped, turn_no, persisted, title_writes>>

\* ------------------------------------------- retrieve_relevant_memories
DefaultLimit == 5

UserMemoryColumns ==
    {"id", "user_id", "memory_type", "key", "value", "importance_score",
     "created_at"}

\* MemoriesOf without the filter on user_id
MemoriesOf_any(uid) == 1..Len(user_memory)

MemoriesOf(uid) == {i \in 1..Len(user_memory) : user_memory[i].user_id = uid}

Min(a, b) == IF a < b THEN a ELSE b

\* 3. memory retrieval: the top `limit` of the caller's memories; the
\* similarity ranking is the library's, so any `limit` of them may be chosen
StepMemory ==
    /\ UNCHANGED others
    /\ pc = "memory"
    /\ LET mine == MemoriesOf(user_id)
       IN IF mine = {}
          THEN /\ relevant_memories' = {}
               /\ pc' = "proactive"
               /\ UNCHANGED <<raised, faults>>
          ELSE \E tfidf_ok \in Outcomes :
               IF tfidf_ok
               THEN /\ \E S \in SUBSET mine :
                         /\ Cardinality(S) = Min(DefaultLimit, Cardinality(mine))
                         /\ relevant_memories' = S
                    /\ pc' = "proactive"
                    /\ UNCHANGED <<raised, faults>>
               ELSE \* fallback query orders by UserMemory.last_accessed
                    IF "last_accessed" \in UserMemoryColumns
                    THEN /\ \E S \in SUBSET mine :
                              /\ Cardinality(S) = Min(DefaultLimit, Cardinality(mine))
                              /\ relevant_memories' = S
                         /\ pc' = "proactive"
                         /\ UNCHANGED <<raised, faults>>
                    ELSE /\ RaiseFault({"memory_retrieval", "AttributeError"})
                         /\ UNCHANGED relevant_memories
    /\ UNCHANGED <<tables, user_id, conversation_id, user_prompt, proactive_suggestions,
                   is_first_exchange, triggered_actions, full_bot_response,
                   chunks_read, events, response, escaped, turn_no, hist,
                   persisted, title_writes>>

\* StepProactive without the try/except of generate_proactive_suggestions
StepProactive_unguarded ==
    /\ UNCHANGED others
    /\ pc = "proactive"
    /\ \E pass_ok \in Outcomes :
         IF pass_ok
         THEN /\ \E suggestions \in SuggestionLists :
                   /\ proactive_suggestions' = suggestions
                   /\ events' = IF suggestions # <<>>
                                THEN Append(events, Frame("proactive", <<>>))
                                ELSE events
              /\ pc' = "save_user"
              /\ UNCHANGED <<raised, faults>>
         ELSE /\ RaiseFault({"proactive_pass"})
              /\ UNCHANGED <<proactive_suggestions, events>>
    /\ UNCHANGED <<tables, user_id, conversation_id, user_prompt,
                   is_first_exchange, triggered_actions, relevant_memories,
                   full_bot_response, chunks_read, response, escaped,
                   turn_no, hist, persisted, title_writes>>

\* 4. generate_proactive_suggestions and the proactive event; an exception
\* inside the pass is caught there and gives the empty list
StepProactive ==
    /\ UNCHANGED others
    /\ pc = "proactive"
    /\ \E pass_ok \in Outcomes :
         IF pass_ok
         THEN /\ \E suggestions \in SuggestionLists :
                   /\ proactive_suggestions' = suggestions
                   /\ events' = IF suggestions # <<>>
                                THEN Append(events, Frame("proactive", <<>>))
                                ELSE events
              /\ UNCHANGED <<raised, faults>>
         ELSE /\ proactive_suggestions' = <<>>
              /\ raised' = raised \cup {"proactive_pass"}
              /\ faults' = faults + 1
              /\ UNCHANGED events
    /\ pc' = "save_user"
    /\ UNCHANGED <<tables, user_id, conversation_id, user_prompt,
                   is_first_exchange, triggered_actions, relevant_memories,
                   full_bot_response, chunks_read, response, escaped,
                   turn_no, hist, persisted, title_writes>>

\* StepSaveUser with the exception of a failed commit swallowed
StepSaveUser_swallowed ==
    /\ UNCHANGED others
    /\ pc = "save_user"
    /\ \E commit_ok \in Outcomes :
         IF commit_ok
         THEN /\ message' = Append(message, MessageRow(conversation_id, "user", user_prompt))
              /\ persisted' = Append(persisted, MessageRow(conversation_id, "user", user_prompt))
              /\ pc' = "store_important"
              /\ UNCHANGED <<raised, faults>>
         ELSE /\ pc' = "store_important"
              /\ raised' = raised \cup {"user_save"}
              /\ faults' = faults + 1
              /\ UNCHANGED <<message, persisted>>
    /\ UNCHANGED <<conversation, user_memory, task_automation, emotion_log,
                   locals, events, response, escaped, turn_no, hist, title_writes>>

\* save_message_to_db(conversation_id, 'user', user_prompt)
StepSaveUser ==
    /\ UNCHANGED others
    /\ pc = "save_user"
    /\ \E commit_ok \in Outcomes :
         IF commit_ok
         THEN /\ message' = Append(message, MessageRow(conversation_id, "user", user_prompt))
              /\ persisted' = Append(persisted, MessageRow(conversation_id, "user", user_prompt))
              /\ pc' = "store_important"
              /\ UNCHANGED <<raised, faults>>
         ELSE /\ RaiseFault({"user_save"})
              /\ UNCHANGED <<message, persisted>>
    /\ UNCHANGED <<conversation, user_memory, task_automation, emotion_log,
                   locals, events, response, escaped, turn_no, hist, title_writes>>

\* 5. memory storage when the prompt holds one of the keywords
StepStoreImportant ==
    /\ UNCHANGED others
    /\ pc = "store_important"
    /\ IF \E k \in MemoryKeywords : Contains(k, Lower(user_prompt))
       THEN \E commit_ok \in Outcomes :
            IF commit_ok
            THEN /\ user_memory' = StoredMemory(user_id, "user_request",
                                       "important_info", user_prompt, 15)
                 /\ pc' = "open_session"
                 /\ UNCHANGED <<raised, faults>>
            ELSE /\ RaiseFault({"memory_store"})
                 /\ UNCHANGED user_memory
       ELSE /\ pc' = "open_session"
            /\ UNCHANGED <<user_memory, raised, faults>>
    /\ UNCHANGED <<conversation, message, task_automation, emotion_log,
                   locals, events, response, escaped, turn_no, hist, persisted,
                   title_writes>>


\* ------------------------------------------------------------ LLM gateway
\* history load and initialize_gemini; None -> the unavailable fragment
StepOpenSession ==
    /\ UNCHANGED others
    /\ pc = "open_session"
    /\ \E opened \in BOOLEAN :
         IF opened
         THEN /\ pc' = "prompt"
              /\ UNCHANGED <<events, raised, faults>>
         ELSE /\ events' = Append(events, Frame("data", UnavailableMsg))
              /\ raised' = raised \cup {"session_open"}
              /\ UNCHANGED faults
              /\ pc' = "save_unavailable"
    /\ UNCHANGED <<tables, locals, response, escaped, turn_no, hist, persisted,
                   title_writes>>

\* save_message_to_db(conversation_id, 'model', error_msg); return
StepSaveUnavailable ==
    /\ UNCHANGED others
    /\ pc = "save_unavailable"
    /\ \E commit_ok \in Outcomes :
         IF commit_ok
         THEN /\ message' = Append(message, MessageRow(conversation_id, "model", UnavailableMsg))
              /\ persisted' = Append(persisted, MessageRow(conversation_id, "model", UnavailableMsg))
              /\ pc' = "done"
              /\ UNCHANGED <<raised, faults>>
         ELSE /\ RaiseFault({"reply_save"})
              /\ UNCHANGED <<message, persisted>>
    /\ UNCHANGED <<conversation, user_memory, task_automation, emotion_log,
                   locals, events, response, escaped, turn_no, hist, title_writes>>

\* 6./7. prompt preparation and the sentiment event
StepPrompt ==
    /\ UNCHANGED others
    /\ pc = "prompt"
    /\ events' = Append(events, Frame("sentiment", <<>>))
    /\ pc' = "stream"
    /\ UNCHANGED <<tables, locals, response, escaped, turn_no, hist, raised,
                   persisted, title_writes, faults>>

\* StreamChunk that accumulates the chunk without sending it
StreamChunk_buffered(c) ==
    /\ UNCHANGED others
    /\ pc = "stream"
    /\ chunks_read < MaxChunks
    /\ chunks_read' = chunks_read + 1
    /\ full_bot_response' = full_bot_response \o c
    /\ UNCHANGED events
    /\ UNCHANGED <<tables, pc, user_id, conversation_id, user_prompt, proactive_suggestions,
                   is_first_exchange, triggered_actions, relevant_memories,
                   response, escaped, turn_no, hist, raised, persisted, title_writes, faults>>

\* 8. one chunk of the provider stream; get_response_stream and the loop of
\* generate_and_save both skip a chunk with empty text
StreamChunk(c) ==
    /\ UNCHANGED others
    /\ pc = "stream"
    /\ chunks_read < MaxChunks
    /\ chunks_read' = chunks_read + 1
    /\ IF c # <<>>
       THEN /\ full_bot_response' = full_bot_response \o c
            /\ events' = Append(events, Frame("data", c))
       ELSE UNCHANGED <<full_bot_response, events>>
    /\ UNCHANGED <<tables, pc, user_id, conversation_id, user_prompt, proactive_suggestions,
                   is_first_exchange, triggered_actions, relevant_memories,
                   response, escaped, turn_no, hist, raised, persisted, title_writes, faults>>

\* the provider stream is exhausted
StreamEnd ==
    /\ UNCHANGED others
    /\ pc = "stream"
    /\ pc' = "save_reply"
    /\ UNCHANGED <<tables, locals, events, response, escaped, turn_no, hist,
                   raised, persisted, title_writes, faults>>

\* StreamFault with the apology appended to the partial reply
StreamFault_appended ==
    /\ UNCHANGED others
    /\ pc = "stream"
    /\ full_bot_response' = full_bot_response \o StreamErrorResponse
    /\ events' = Append(events, Frame("data", StreamErrorResponse))
    /\ raised' = raised \cup {"stream"}
    /\ UNCHANGED faults
    /\ pc' = "save_reply"
    /\ UNCHANGED <<tables, user_id, conversation_id, user_prompt, proactive_suggestions,
                   is_first_exchange, triggered_actions, relevant_memories,
                   chunks_read, response, escaped, turn_no, hist, persisted,
                   title_writes>>

\* the provider stream raises: get_response_stream re-raises, the inner
\* except of generate_and_save replaces the reply by the apology
StreamFault ==
    /\ UNCHANGED others
    /\ pc = "stream"
    /\ full_bot_response' = StreamErrorResponse
    /\ events' = Append(events, Frame("data", StreamErrorResponse))
    /\ raised' = raised \cup {"stream"}
    /\ UNCHANGED faults
    /\ pc' = "save_reply"
    /\ UNCHANGED <<tables, user_id, conversation_id, user_prompt, proactive_suggestions,
                   is_first_exchange, triggered_actions, relevant_memories,
                   chunks_read, response, escaped, turn_no, hist, persisted,
                   title_writes>>

\* save bot response, but before the stream was read to its end
StepSaveReply_eager ==
    /\ UNCHANGED others
    /\ pc = "stream"
    /\ \A i \in 1..Len(persisted) : persisted[i].role # "model"
    /\ full_bot_response # <<>>
    /\ message' = Append(message, MessageRow(conversation_id, "model", full_bot_response))
    /\ persisted' = Append(persisted, MessageRow(conversation_id, "model", full_bot_response))
    /\ UNCHANGED <<conversation, user_memory, task_automation, emotion_log, pc,
                   raised, faults, locals, events, response, escaped, turn_no,
                   hist, title_writes>>

\* save bot response (only when non-empty)
StepSaveReply ==
    /\ UNCHANGED others
    /\ pc = "save_reply"
    /\ IF full_bot_response # <<>>
       THEN \E commit_ok \in Outcomes :
            IF commit_ok
            THEN /\ message' = Append(message, MessageRow(conversation_id, "model", full_bot_response))
                 /\ persisted' = Append(persisted, MessageRow(conversation_id, "model", full_bot_response))
                 /\ pc' = "store_pattern"
                 /\ UNCHANGED <<raised, faults>>
            ELSE /\ RaiseFault({"reply_save"})
                 /\ UNCHANGED <<message, persisted>>
       ELSE /\ pc' = "store_pattern"
            /\ UNCHANGED <<message, persisted, raised, faults>>
    /\ UNCHANGED <<conversation, user_memory, task_automation, emotion_log,
                   locals, events, response, escaped, turn_no, hist, title_writes>>

\* 9. interaction pattern storage
StepStorePattern ==
    /\ UNCHANGED others
    /\ pc = "store_pattern"
    /\ \E commit_ok \in Outcomes :
         IF commit_ok
         THEN /\ user_memory' = StoredMemory(user_id, "interaction_pattern", "query_type",
                    [query |-> user_prompt,
                     response_length |-> Len(full_bot_response),
                     had_automation |-> (triggered_actions # <<>>),
                     used_memory |-> (relevant_memories # {})], 10)
              /\ pc' = "title"
              /\ UNCHANGED <<raised, faults>>
         ELSE /\ RaiseFault({"memory_store"})
              /\ UNCHANGED user_memory
    /\ UNCHANGED <<conversation, message, task_automation, emotion_log,
                   locals, events, response, escaped, turn_no, hist, persisted,
                   title_writes>>

\* StepTitle without the is_first_exchange test
StepTitle_every_turn ==
    /\ UNCHANGED others
    /\ pc = "title"
    /\ IF full_bot_response # <<>>
       THEN \E title \in Titles, commit_ok \in BOOLEAN :
            IF title # "" /\ commit_ok
            THEN /\ conversation' = [conversation EXCEPT ![conversation_id].title = title]
                 /\ title_writes' = [title_writes EXCEPT ![conversation_id] = @ + 1]
                 /\ UNCHANGED <<raised, faults>>
            ELSE /\ raised' = IF title # "" THEN raised \cup {"title_commit"} ELSE raised
                 /\ faults' = IF commit_ok THEN faults ELSE faults + 1
                 /\ UNCHANGED <<conversation, title_writes>>
       ELSE UNCHANGED <<conversation, title_writes, raised, faults>>
    /\ pc' = "done"
    /\ UNCHANGED <<message, user_memory, task_automation, emotion_log,
                   locals, events, response, escaped, turn_no, hist, persisted>>

\* 10. title generation for the first exchange; get_conversation_title
\* returns the provider's text, or "New Conversation" when it fails; an
\* exception of the commit is caught by the inner try
StepTitle ==
    /\ UNCHANGED others
    /\ pc = "title"
    /\ IF is_first_exchange /\ full_bot_response # <<>>
       THEN \E title \in Titles, commit_ok \in BOOLEAN :
            IF title # "" /\ commit_ok
            THEN /\ conversation' = [conversation EXCEPT ![conversation_id].title = title]
                 /\ title_writes' = [title_writes EXCEPT ![conversation_id] = @ + 1]
                 /\ UNCHANGED <<raised, faults>>
            ELSE /\ raised' = IF title # "" THEN raised \cup {"title_commit"} ELSE raised
                 /\ faults' = IF commit_ok THEN faults ELSE faults + 1
                 /\ UNCHANGED <<conversation, title_writes>>
       ELSE UNCHANGED <<conversation, title_writes, raised, faults>>
    /\ pc' = "done"
    /\ UNCHANGED <<message, user_memory, task_automation, emotion_log,
                   locals, events, response, escaped, turn_no, hist, persisted>>

\* the outermost except: the error event ...
ExceptYield ==
    /\ UNCHANGED others
    /\ pc = "except_yield"
    /\ events' = Append(events, Frame("error", <<>>))
    /\ pc' = "except_save"
    /\ UNCHANGED <<tables, locals, response, escaped, turn_no, hist, raised,
                   persisted, title_writes, faults>>

\* ... and then save_message_to_db(conversation_id, 'model', error_msg),
\* outside any try: when it raises, the exception leaves the generator
ExceptSave ==
    /\ UNCHANGED others
    /\ pc = "except_save"
    /\ \E commit_ok \in Outcomes :
         IF commit_ok
         THEN /\ message' = Append(message, MessageRow(conversation_id, "model", HandlerErrorMsg))
              /\ persisted' = Append(persisted, MessageRow(conversation_id, "model", HandlerErrorMsg))
              /\ UNCHANGED <<escaped, raised, faults>>
         ELSE /\ escaped' = TRUE
              /\ raised' = raised \cup {"handler_save"}
              /\ faults' = faults + 1
              /\ UNCHANGED <<message, persisted>>
    /\ pc' = "done"
    /\ UNCHANGED <<conversation, user_memory, task_automation, emotion_log,
                   locals, events, response, turn_no, hist, title_writes>>

\* ------------------------------------------------------------------- spec
\* the steps of the generator generate_and_save
Generator ==
    \/ StepEmotion
    \/ StepAutomation
    \/ StepMemory
    \/ StepProactive
    \/ StepSaveUser
    \/ StepStoreImportant
    \/ StepOpenSession
    \/ StepSaveUnavailable
    \/ StepPrompt
    \/ \E c \in ProviderChunks(chunks_read + 1) : StreamChunk(c)
    \/ StreamEnd
    \/ StreamFault
    \/ StepSaveReply
    \/ StepStorePattern
    \/ StepTitle
    \/ ExceptYield
    \/ ExceptSave

Next ==
    \/ \E u \in Users : index(u)
    \/ \E u \in Users, t \in TriggerPhrases, a \in CustomActionLists :
          create_automation(u, t, a)
    \/ \E u \in Users, cid \in 0..MaxConversations, p \in Prompts : chat(u, cid, p)
    \/ Generator

\* POST /chat requests only
NextTurns ==
    \/ \E u \in Users, cid \in 0..MaxConversations, p \in Prompts : chat(u, cid, p)
    \/ Generator

Spec == Init /\ [][Next]_vars

SpecTurns == InitTurns /\ [][NextTurns]_vars

TypeOK ==
    /\ pc \in {"idle", "emotion", "automation", "memory", "proactive",
               "save_user", "store_important", "open_session",
               "save_unavailable", "prompt", "stream", "save_reply",
               "store_pattern", "title", "except_yield", "except_save", "done"}
    /\ response \in {0, 200, 400, 403}
    /\ turn_no \in 0..MaxTurns


\* ---------------------------------------------------------------- claims
EventNames == [i \in 1..Len(events) |-> events[i].event]

Count(ev) == Cardinality({i \in 1..Len(events) : events[i].event = ev})

LastEvent == events[Len(events)]

\* the generator of an accepted request has terminated
TurnOver == pc = "done" /\ response = 200

\* labels of `raised` that stand for a failure of the environment
PersistLabels == {"emotion_log_commit", "automation_commit", "user_save",
                  "memory_store", "reply_save", "title_commit", "handler_save"}
GatewayLabels == {"session_open", "stream"}
FaultLabels == PersistLabels \cup GatewayLabels
                  \cup {"memory_retrieval", "proactive_pass"}

\* an exception reached the outermost except of generate_and_save
Caught == raised \cap {"ValueError", "NameError", "AttributeError",
                       "automation_commit", "user_save", "memory_store",
                       "reply_save"} # {}

ModelRows == SelectSeq(persisted, LAMBDA r : r.role = "model")
UserRows == SelectSeq(persisted, LAMBDA r : r.role = "user")

DataFrames(k) == [i \in 1..k |-> "data"]

\* C1: a turn on an owned conversation with a healthy gateway and no
\* persistence or subsystem fault emits exactly: emotion, automation iff a
\* trigger matched, proactive iff suggestions were returned, sentiment, then
\* text fragments only, and no error event.
CE_C1 ==
    (TurnOver /\ raised \cap FaultLabels = {}) =>
        \E k \in 0..Len(events) :
            EventNames =
                <<"emotion">>
                \o (IF MatchedCustom(user_id, user_prompt) # {}
                       \/ MatchedDefault(user_prompt) # {}
                    THEN <<"automation">> ELSE <<>>)
                \o (IF proactive_suggestions # <<>> THEN <<"proactive">> ELSE <<>>)
                \o <<"sentiment">>
                \o DataFrames(k)

\* the statement of C1 for the messages that hold no custom trigger phrase
C1_NoCustomMatch ==
    MatchedCustom(user_id, user_prompt) = {} => CE_C1

\* C2: when an exception is raised at any step inside the turn orchestrator,
\* the turn emits one error event and ends with no model-role message
\* persisted for that turn.
CE_C2 ==
    (TurnOver /\ Caught) =>
        /\ Count("error") = 1
        /\ ModelRows = <<>>


\* events sent earlier in the same request are still there, in place
NoRetraction ==
    turn_no' = turn_no =>
        /\ Len(events') >= Len(events)
        /\ SubSeq(events', 1, Len(events)) = events

ErrorIsLast ==
    \A i \in 1..Len(events) : events[i].event = "error" => i = Len(events)

\* C3 (as stated): when the LLM session fails to open, or a persistence call
\* raises, the turn short-circuits to an error event, which is the last
\* frame of the stream and the only error event.
CE_C3 ==
    (TurnOver /\ raised \cap (PersistLabels \cup {"session_open"}) # {}) =>
        /\ Count("error") = 1
        /\ LastEvent.event = "error"

\* C3 (amended): when persisting a message or a memory raises, the turn
\* short-circuits to an error event; an error event is always the last frame
\* of the stream, so there is at most one; no event already sent is
\* retracted; and a session that fails to open yields the unavailability
\* text fragment, with an error event only when persisting that text raises.
Thm_C3 ==
    /\ [](/\ ErrorIsLast
          /\ (TurnOver /\ raised \cap {"user_save", "memory_store", "reply_save"} # {})
                => (events # <<>> /\ LastEvent.event = "error")
          /\ (TurnOver /\ "session_open" \in raised /\ "reply_save" \notin raised)
                => (Count("error") = 0 /\ LastEvent = Frame("data", UnavailableMsg)))
    /\ [][NoRetraction]_vars

Wit_C3 ==
    /\ TurnOver
    /\ "reply_save" \in raised
    /\ Len(events) >= 2
    /\ LastEvent.event = "error"

\* the gateway failed before any fragment was delivered
GatewayFailedImmediately ==
    \/ "session_open" \in raised
    \/ ("stream" \in raised /\ chunks_read = 0)

ApologyFrames == {Frame("data", UnavailableMsg), Frame("data", StreamErrorResponse)}

\* C4: when the gateway fails immediately, the generator terminates without
\* an exception escaping it and its last frame is an apologetic fragment or
\* an error event.
CE_C4 ==
    (TurnOver /\ GatewayFailedImmediately) =>
        /\ ~escaped
        /\ (LastEvent \in ApologyFrames \/ LastEvent.event = "error")

GatewayFailed == raised \cap GatewayLabels # {}

Apology == IF "session_open" \in raised THEN UnavailableMsg ELSE StreamErrorResponse

ApologyCount ==
    Cardinality({i \in 1..Len(events) : events[i] \in ApologyFrames})

C5_Outcome ==
    /\ ApologyCount = 1
    /\ ~escaped
    /\ ModelRows = <<MessageRow(conversation_id, "model", Apology)>>

HadExchange(cid) ==
    LET ms == MessagesOf(message, cid)
    IN \E i \in 1..Len(ms) : \E j \in (i + 1)..Len(ms) :
          ms[i].role = "user" /\ ms[j].role = "model"

TitleWritten(cid) ==
    \/ title_writes'[cid] # title_writes[cid]
    \/ conversation'[cid].title # conversation[cid].title

Rejected(u, cid) ==
    \/ cid = 0
    \/ ~HasConversation(cid)
    \/ conversation[cid].user_id # u

\* C8: a request with a missing conversation id gets 400, one with an unknown
\* or foreign conversation id gets 403; the turn never starts: no SSE event
\* and no row of any table is created or changed.
Thm_C8 ==
    /\ [](response \in {400, 403} =>
            /\ pc = "done"
            /\ events = <<>>
            /\ persisted = <<>>)
    /\ [][turn_no' # turn_no =>
            /\ response' = IF conversation_id' = 0 THEN 400
                           ELSE IF Rejected(user_id', conversation_id') THEN 403
                           ELSE 200
            /\ response' # 200 => (tables' = tables /\ pc' = "done")]_vars

Wit_C8 ==
    /\ response = 403
    /\ HasConversation(conversation_id)
    /\ conversation[conversation_id].user_id # user_id
    /\ message # <<>>

\* usage count a TaskAutomation row carries
UsageCount(row) == IF "usage_count" \in DOMAIN row THEN row.usage_count ELSE 0

\* C9: every message that holds the trigger phrase of an active custom
\* automation raises that automation's committed usage count by exactly 1,
\* and nothing lowers it; so the count equals the number of such messages.
CE_C9 ==
    \A i \in 1..Len(task_automation) :
        UsageCount(task_automation[i]) = trigger_matches[i]

\* trigger phrases check_triggers looks for on behalf of user u
TriggersOf(u) ==
    {default_automations[i].trigger : i \in 1..Len(default_automations)}
    \cup {task_automation[i].trigger_phrase :
            i \in {j \in 1..Len(task_automation) :
                     task_automation[j].user_id = u /\ task_automation[j].is_active}}

\* C10: a built-in or active custom trigger phrase t fires on message m if
\* and only if lower(t) occurs as a contiguous substring of lower(m).
CE_C10 ==
    ct.called =>
        \A t \in TriggersOf(user_id) :
            t \in ct.fired <=> Contains(Lower(t), Lower(user_prompt))

\* the statement of C10 for the calls in which no custom phrase is matched
C10_NoCustomMatch ==
    MatchedCustom(user_id, user_prompt) = {} => CE_C10

\* ============================================ ProactiveAssistant (direct calls)
\* the text argument that is None in the program
None == <<"None">>

MaxDeadlineMsgs == 4

\* keyword tables of proactive_handler.py
coding_keywords ==
    {<<"c","o","d","e">>, <<"p","r","o","g","r","a","m","m","i","n","g">>, <<"d","e","b","u","g">>, <<"e","r","r","o","r">>, <<"f","u","n","c","t","i","o","n">>, <<"c","l","a","s","s">>, <<"v","a","r","i","a","b","l","e">>}
t_error == <<"e","r","r","o","r">>
t_bug == <<"b","u","g">>
t_optimize == <<"o","p","t","i","m","i","z","e">>
t_improve == <<"i","m","p","r","o","v","e">>
learning_keywords ==
    {<<"l","e","a","r","n">>, <<"t","u","t","o","r","i","a","l">>, <<"h","o","w"," ","t","o">>, <<"e","x","p","l","a","i","n">>, <<"u","n","d","e","r","s","t","a","n","d">>, <<"g","u","i","d","e">>}
\* the dict `topics`, in insertion order
topics ==
    << [topic |-> "python", keywords |-> {<<"p","y","t","h","o","n">>, <<"d","j","a","n","g","o">>, <<"f","l","a","s","k">>, <<"p","a","n","d","a","s">>}],
       [topic |-> "javascript", keywords |-> {<<"j","a","v","a","s","c","r","i","p","t">>, <<"j","s">>, <<"r","e","a","c","t">>, <<"n","o","d","e">>}],
       [topic |-> "web", keywords |-> {<<"h","t","m","l">>, <<"c","s","s">>, <<"w","e","b"," ","d","e","v","e","l","o","p","m","e","n","t">>, <<"f","r","o","n","t","e","n","d">>}],
       [topic |-> "data", keywords |-> {<<"d","a","t","a"," ","s","c","i","e","n","c","e">>, <<"m","a","c","h","i","n","e"," ","l","e","a","r","n","i","n","g">>, <<"a","i">>, <<"a","n","a","l","y","t","i","c","s">>}],
       [topic |-> "database", keywords |-> {<<"s","q","l">>, <<"d","a","t","a","b","a","s","e">>, <<"m","y","s","q","l">>, <<"p","o","s","t","g","r","e","s","q","l">>}] >>

t_explain_the_error == <<"E","x","p","l","a","i","n"," ","t","h","e"," ","e","r","r","o","r"," ","a","n","d"," ","i","m","p","r","o","v","e"," ","m","y"," ","P","y","t","h","o","n"," ","c","o","d","e">>

work_session_threshold == 20
Suggestion(type, priority) == [type |-> type, priority |-> priority, context |-> 0]

\* database content as the queries of proactive_handler.py see it: message
\* counts of the caller in the last hour, two hours and day, and the number
\* of last week's messages that hold a deadline keyword and a date
ActivityInputs ==
    { [recent_1h |-> 0, recent_2h |-> 0, daily |-> 0],
      [recent_1h |-> 3, recent_2h |-> 3, daily |-> 6],
      [recent_1h |-> 0, recent_2h |-> 21, daily |-> 30],
      [recent_1h |-> 16, recent_2h |-> 21, daily |-> 21] }

\* emotion scores in tenths; not given when the caller passes no emotion data
EmotionInputs ==
    { [given |-> FALSE, stress |-> 0, happiness |-> 0],
      [given |-> TRUE, stress |-> 7, happiness |-> 1],
      [given |-> TRUE, stress |-> 1, happiness |-> 8],
      [given |-> TRUE, stress |-> 2, happiness |-> 2] }

ProactiveContexts ==
    [ current_message : {None, t_hello, t_explain_the_error},
      emotions : EmotionInputs,
      hour : {9, 12, 15},
      db_ok : BOOLEAN,
      activity : ActivityInputs,
      deadline_msgs : 0..MaxDeadlineMsgs ]

check_work_session_duration(c) ==
    IF c.db_ok /\ c.activity.recent_2h > work_session_threshold
    THEN <<Suggestion("break_reminder", "medium")>>
    ELSE <<>>

\* one deadline_alert per matching message, suggestions[:3]
check_upcoming_deadlines(c) ==
    IF c.db_ok
    THEN [i \in 1..Min(c.deadline_msgs, 3) |->
             [type |-> "deadline_alert", priority |-> "high", context |-> i]]
    ELSE <<>>

analyze_coding_patterns(m) ==
    IF \E k \in coding_keywords : Contains(k, Lower(m))
    THEN (IF Contains(t_error, Lower(m)) \/ Contains(t_bug, Lower(m))
          THEN <<Suggestion("debug_assistance", "high")>> ELSE <<>>)
         \o (IF Contains(t_optimize, Lower(m)) \/ Contains(t_improve, Lower(m))
             THEN <<Suggestion("code_optimization", "medium")>> ELSE <<>>)
    ELSE <<>>

suggest_learning_resources(m) ==
    IF /\ \E k \in learning_keywords : Contains(k, Lower(m))
       /\ \E i \in 1..Len(topics) : \E k \in topics[i].keywords : Contains(k, Lower(m))
    THEN <<Suggestion("learning_assistance", "medium")>>
    ELSE <<>>

check_productivity_patterns(c) ==
    IF ~c.db_ok THEN <<>>
    ELSE IF c.activity.recent_1h > 15
    THEN <<Suggestion("productivity_break", "medium")>>
    ELSE IF c.activity.daily < 5 /\ c.hour > 10
    THEN <<Suggestion("engagement_boost", "low")>>
    ELSE <<>>

generate_contextual_suggestions(c) ==
    (IF ~c.emotions.given THEN <<>>
     ELSE IF c.emotions.stress > 6 THEN <<Suggestion("stress_relief", "high")>>
     ELSE IF c.emotions.happiness > 7 THEN <<Suggestion("momentum_boost", "medium")>>
     ELSE <<>>)
    \o (IF 9 <= c.hour /\ c.hour <= 11 THEN <<Suggestion("morning_productivity", "low")>>
        ELSE IF 14 <= c.hour /\ c.hour <= 16 THEN <<Suggestion("afternoon_energy", "low")>>
        ELSE <<>>)

\* the dict priority_order with its default
priority_order(p) ==
    CASE p = "high" -> 3 [] p = "medium" -> 2 [] p = "low" -> 1 [] OTHER -> 1

Weight(s) == priority_order(s.priority)

\* list.sort(key=..., reverse=True): stable, descending by weight
RECURSIVE InsertByWeight(_, _)
InsertByWeight(sorted, x) ==
    IF sorted = <<>> THEN <<x>>
    ELSE IF Weight(Head(sorted)) >= Weight(x)
    THEN <<Head(sorted)>> \o InsertByWeight(Tail(sorted), x)
    ELSE <<x>> \o sorted

\* the list left in the order the checks appended to it
SortByWeight_skipped(l) == l

RECURSIVE SortByWeight(_)
SortByWeight(l) ==
    IF l = <<>> THEN <<>>
    ELSE InsertByWeight(SortByWeight(SubSeq(l, 1, Len(l) - 1)), l[Len(l)])

\* the suggestions of the six checks, in the order they are appended
all_suggestions(c) ==
    check_work_session_duration(c)
    \o check_upcoming_deadlines(c)
    \o analyze_coding_patterns(c.current_message)
    \o suggest_learning_resources(c.current_message)
    \o check_productivity_patterns(c)
    \o generate_contextual_suggestions(c)

\* current_message.lower() raises AttributeError on None
ProactiveRaises(c) == c.current_message = None

generate_proactive_suggestions ==
    /\ call.fn = "generate_proactive_suggestions"
    /\ ~call.returned
    /\ LET merged == all_suggestions(call.context)
       IN call' = [call EXCEPT
                     !.returned = TRUE,
                     !.all_suggestions = merged,
                     !.result = IF ProactiveRaises(call.context) THEN <<>>
                                ELSE SubSeq(SortByWeight(merged), 1, Min(5, Len(merged)))]
    /\ UNCHANGED <<tables, pc, locals, events, response, escaped, turn_no,
                   raised, persisted, title_writes, faults, hist, registration, turns>>

InitProactive ==
    /\ conversation = <<>>
    /\ title_writes = <<>>
    /\ InitOther
    /\ \E c \in ProactiveContexts :
         call = [fn |-> "generate_proactive_suggestions", context |-> c,
                 returned |-> FALSE, all_suggestions |-> <<>>, result |-> <<>>]

NextProactive == generate_proactive_suggestions

SpecProactive == InitProactive /\ [][NextProactive]_vars

\* suggestions the six checks produced and the call did not return
LeftOut ==
    {call.all_suggestions[i] : i \in 1..Len(call.all_suggestions)}
    \ {call.result[i] : i \in 1..Len(call.result)}

\* C11: generate_proactive_suggestions returns at most 5 suggestions, their
\* priority weights (high 3, medium 2, low 1) non-increasing from first to
\* last, and every suggestion left out weighs no more than any one returned.
Thm_C11 ==
    (call.fn = "generate_proactive_suggestions" /\ call.returned
        /\ ~ProactiveRaises(call.context)) =>
        /\ Len(call.result) <= 5
        /\ \A i \in 1..Len(call.result) : \A j \in i..Len(call.result) :
               Weight(call.result[i]) >= Weight(call.result[j])
        /\ \A s \in LeftOut : \A i \in 1..Len(call.result) :
               Weight(s) <= Weight(call.result[i])
        /\ Len(call.result) = Min(5, Len(call.all_suggestions))

Wit_C11 ==
    /\ call.fn = "generate_proactive_suggestions"
    /\ call.returned
    /\ Len(call.result) = 5
    /\ Len(call.all_suggestions) >= 8
    /\ Weight(call.result[1]) = 3
    /\ Weight(call.result[5]) = 2
    /\ \E s \in LeftOut : Weight(s) = 1
    /\ Weight(call.all_suggestions[1]) = 2

\* ================================================ EmotionAnalyzer (direct calls)
\* exact rational numbers n/d with d > 0, kept in lowest terms
RECURSIVE GCD(_, _)
GCD(a, b) == IF b = 0 THEN a ELSE GCD(b, a % b)

Abs(x) == IF x < 0 THEN -x ELSE x

Rat(n, d) ==
    LET g == GCD(Abs(n), d)
    IN [n |-> n \div g, d |-> d \div g]

RAdd(x, y) == Rat(x.n * y.d + y.n * x.d, x.d * y.d)
RSub(x, y) == Rat(x.n * y.d - y.n * x.d, x.d * y.d)
\* x / y for y > 0
RDiv(x, y) == Rat(x.n * y.d, x.d * y.n)
RLeq(x, y) == x.n * y.d <= y.n * x.d
RMax(x, y) == IF RLeq(x, y) THEN y ELSE x
RAbs(x) == Rat(Abs(x.n), x.d)
RNeg(x) == Rat(-x.n, x.d)
Zero == Rat(0, 1)
One == Rat(1, 1)

\* polarity and subjectivity of the sentiment library are multiples of 1/Grid
Grid == 4

stress_indicators ==
    {<<"s","t","r","e","s","s","e","d">>,
     <<"o","v","e","r","w","h","e","l","m","e","d">>,
     <<"a","n","x","i","o","u","s">>, <<"w","o","r","r","i","e","d">>,
     <<"f","r","u","s","t","r","a","t","e","d">>, <<"t","i","r","e","d">>,
     <<"e","x","h","a","u","s","t","e","d">>,
     <<"d","e","a","d","l","i","n","e">>, <<"u","r","g","e","n","t">>,
     <<"p","r","e","s","s","u","r","e">>}
happiness_indicators ==
    {<<"h","a","p","p","y">>, <<"e","x","c","i","t","e","d">>,
     <<"g","r","e","a","t">>, <<"a","w","e","s","o","m","e">>,
     <<"w","o","n","d","e","r","f","u","l">>,
     <<"f","a","n","t","a","s","t","i","c">>,
     <<"a","m","a","z","i","n","g">>, <<"l","o","v","e">>,
     <<"p","e","r","f","e","c","t">>, <<"e","x","c","e","l","l","e","n","t">>}

t_empty == <<>>
t_happy_text == <<"I"," ","a","m"," ","s","o"," ","H","a","p","p","y"," ","a","n","d"," ","e","x","c","i","t","e","d">>
t_stress_text == <<"S","t","r","e","s","s","e","d",",","a","n","x","i","o","u","s",",","t","i","r","e","d"," ","t","o","d","a","y">>

EmotionTexts == {t_empty, t_hello, t_happy_text, t_stress_text}

\* len(text.split())
WordCount(s) ==
    Cardinality({i \in 1..Len(s) : s[i] # " " /\ (i = 1 \/ s[i - 1] = " ")})

\* sum(1 for word in indicators if word in text_lower) / max(len(text.split()), 1)
IndicatorScore(indicators, text) ==
    Rat(Cardinality({w \in indicators : Contains(w, Lower(text))}),
        IF WordCount(text) > 1 THEN WordCount(text) ELSE 1)

\* RawEmotions without max(0, .) around the polarity terms
RawEmotions_unclamped(text, polarity, subjectivity) ==
    [happiness |-> RAdd(polarity, IndicatorScore(happiness_indicators, text)),
     stress |-> RAdd(IndicatorScore(stress_indicators, text), RNeg(polarity)),
     neutral |-> RSub(One, RAbs(polarity)),
     confidence |-> subjectivity]

\* the dict `emotions` before normalization
RawEmotions(text, polarity, subjectivity) ==
    [happiness |-> RAdd(RMax(Zero, polarity), IndicatorScore(happiness_indicators, text)),
     stress |-> RAdd(IndicatorScore(stress_indicators, text), RMax(Zero, RNeg(polarity))),
     neutral |-> RSub(One, RAbs(polarity)),
     confidence |-> subjectivity]

\* sum(emotions.values())
Total(e) == RAdd(RAdd(e.happiness, e.stress), RAdd(e.neutral, e.confidence))

\* the scores returned as computed, without the division
Normalized_skipped(e, total) == e

\* {k: v / total for k, v in emotions.items()} when total > 0
Normalized(e, total) ==
    IF RLeq(total, Zero) THEN e
    ELSE [happiness |-> RDiv(e.happiness, total),
          stress |-> RDiv(e.stress, total),
          neutral |-> RDiv(e.neutral, total),
          confidence |-> RDiv(e.confidence, total)]

\* inputs of a direct call: the text, and what the sentiment library says
EmotionCalls ==
    { [fn |-> "analyze_emotion", text |-> t, textblob |-> TRUE,
       polarity |-> Rat(p, Grid), subjectivity |-> Rat(s, Grid),
       returned |-> FALSE, total |-> Zero,
       result |-> [happiness |-> Zero, stress |-> Zero, neutral |-> Zero,
                   confidence |-> Zero]] :
          t \in EmotionTexts, p \in (-Grid)..Grid, s \in 0..Grid }
    \cup
    { [fn |-> "analyze_emotion", text |-> t, textblob |-> FALSE,
       polarity |-> Zero, subjectivity |-> Rat(1, 2),
       returned |-> FALSE, total |-> Zero,
       result |-> [happiness |-> Zero, stress |-> Zero, neutral |-> Zero,
                   confidence |-> Zero]] : t \in EmotionTexts }

\* EmotionAnalyzer.analyze_emotion(text, user_id, conversation_id) for user 1
analyze_emotion ==
    /\ call.fn = "analyze_emotion"
    /\ ~call.returned
    /\ pc = "idle"
    /\ LET e == RawEmotions(call.text, call.polarity, call.subjectivity)
       IN \E commit_ok \in Outcomes :
            IF commit_ok \/ "logging" \in EmotionHandlerGlobals
            THEN /\ call' = [call EXCEPT !.returned = TRUE,
                                         !.total = Total(e),
                                         !.result = Normalized(e, Total(e))]
                 /\ emotion_log' = IF commit_ok
                                   THEN Append(emotion_log,
                                          [user_id |-> 1, conversation_id |-> 0])
                                   ELSE emotion_log
                 /\ faults' = IF commit_ok THEN faults ELSE faults + 1
                 /\ UNCHANGED <<pc, raised>>
            ELSE \* the except branch names `logging`, which is not imported
                 /\ pc' = "done"
                 /\ raised' = {"emotion_log_commit", "NameError"}
                 /\ faults' = faults + 1
                 /\ UNCHANGED <<call, emotion_log>>
    /\ UNCHANGED <<conversation, message, user_memory, task_automation, locals,
                   events, response, escaped, turn_no, persisted, title_writes, hist,
                   registration, turns>>

InitEmotion ==
    /\ conversation = <<>>
    /\ title_writes = <<>>
    /\ InitOther
    /\ call \in EmotionCalls

NextEmotion == analyze_emotion

SpecEmotion == InitEmotion /\ [][NextEmotion]_vars

InUnit(x) == RLeq(Zero, x) /\ RLeq(x, One)

\* C12: the four scores analyze_emotion returns are each in [0,1], and they
\* sum to 1 whenever the raw sum before normalization was nonzero.
Thm_C12 ==
    (call.fn = "analyze_emotion" /\ call.returned) =>
        /\ InUnit(call.result.happiness)
        /\ InUnit(call.result.stress)
        /\ InUnit(call.result.neutral)
        /\ InUnit(call.result.confidence)
        /\ call.total # Zero => Total(call.result) = One

Wit_C12 ==
    /\ call.fn = "analyze_emotion"
    /\ call.returned
    /\ call.text = t_stress_text
    /\ RLeq(One, IndicatorScore(stress_indicators, call.text))
    /\ call.polarity = Rat(-1, 2)
    /\ call.total # One
    /\ call.result.stress # Zero
    /\ call.result.confidence # Zero

\* ================================================== MemoryManager (direct calls)
MaxMemories == 2
MaxLimit == 2

\* texts of memories and queries, as lists of word tokens
StopWords == {"it"}
MemoryKeys == {<<"it">>, <<"cat">>, <<"dog">>}
MemoryValues == {<<>>, <<"cat">>}
Importances == {1, 10}

\* similarity values of the library, in units of 1/2
SimLevels == {0, 1, 2}

\* f"{m.key} {m.value}"
MemoryText(m) == m.key \o m.value

Words(text) == {text[i] : i \in 1..Len(text)}

\* the terms TfidfVectorizer(stop_words='english') keeps
Terms(text) == Words(text) \ StopWords

\* MemoryManager(u).store_memory("note", key, value, importance)
store_memory(u, key, value, importance) ==
    /\ call.fn = "none"
    /\ pc = "idle"
    /\ Len(user_memory) < MaxMemories
    /\ user_memory' = StoredMemory(u, "note", key, value, importance)
    /\ UNCHANGED <<conversation, message, task_automation, emotion_log, pc,
                   locals, events, response, escaped, turn_no, raised,
                   persisted, title_writes, faults, hist, call, registration, turns>>

\* indices of the caller's memories in table order (filter_by(...).all())
RECURSIVE MemoryList(_, _)
MemoryList(u, i) ==
    IF i > Len(user_memory) THEN <<>>
    ELSE (IF user_memory[i].user_id = u THEN <<i>> ELSE <<>>) \o MemoryList(u, i + 1)

\* what cosine_similarity may give for a memory text: 0 when it shares no
\* term with the query, a positive value otherwise
SimilarityMaps(u, query) ==
    LET texts == {MemoryText(user_memory[i]) : i \in MemoriesOf(u)}
    IN {sim \in [texts -> SimLevels] :
          \A t \in texts : sim[t] = 0 <=> Terms(t) \cap Terms(query) = {}}

\* fit_transform raises ValueError (empty vocabulary) when no document of
\* the corpus, the query included, holds a term
EmptyVocabulary(u, query) ==
    /\ Terms(query) = {}
    /\ \A i \in MemoriesOf(u) : Terms(MemoryText(user_memory[i])) = {}

\* scored_memories.sort(key=lambda x: x[1], reverse=True): stable, descending
RECURSIVE InsertByScore(_, _, _)
InsertByScore(sorted, x, score) ==
    IF sorted = <<>> THEN <<x>>
    ELSE IF score[Head(sorted)] >= score[x]
    THEN <<Head(sorted)>> \o InsertByScore(Tail(sorted), x, score)
    ELSE <<x>> \o sorted

RECURSIVE SortByScore(_, _)
SortByScore(l, score) ==
    IF l = <<>> THEN <<>>
    ELSE InsertByScore(SortByScore(SubSeq(l, 1, Len(l) - 1), score), l[Len(l)], score)

\* MemoryManager(u).retrieve_relevant_memories(query, limit); the result is
\* the list of the rows returned, as indices into user_memory
retrieve_relevant_memories(u, query, limit, sklearn) ==
    /\ call.fn = "none"
    /\ pc = "idle"
    /\ LET memories == MemoryList(u, 1)
           base == [fn |-> "retrieve_relevant_memories", user_id |-> u,
                    query |-> query, limit |-> limit, sklearn |-> sklearn,
                    raised |-> "", similarities |-> <<>>, scores |-> <<>>,
                    result |-> <<>>]
       IN IF memories = <<>>
          THEN call' = base
          ELSE IF ~sklearn \/ EmptyVocabulary(u, query)
          THEN \* both fallbacks order by UserMemory.last_accessed
               IF "last_accessed" \in UserMemoryColumns
               THEN call' = [base EXCEPT
                               !.result = SubSeq(memories, 1, Min(limit, Len(memories)))]
               ELSE call' = [base EXCEPT !.raised = "AttributeError"]
          ELSE \E sim \in SimilarityMaps(u, query) :
                 LET similarities == [i \in 1..Len(user_memory) |->
                                         IF user_memory[i].user_id = u
                                         THEN sim[MemoryText(user_memory[i])] ELSE 0]
                     scores == [i \in 1..Len(user_memory) |->
                                   similarities[i] * user_memory[i].importance_score]
                 IN call' = [base EXCEPT
                               !.similarities = similarities,
                               !.scores = scores,
                               !.result = SubSeq(SortByScore(memories, scores), 1,
                                                 Min(limit, Len(memories)))]
    /\ UNCHANGED <<tables, pc, locals, events, response, escaped, turn_no,
                   raised, persisted, title_writes, faults, hist, registration, turns>>

NextMemory ==
    \/ \E key \in MemoryKeys, value \in MemoryValues, importance \in Importances :
          store_memory(1, key, value, importance)
    \/ store_memory(2, <<"cat">>, <<>>, 10)
    \/ \E u \in Users, query \in MemoryKeys, limit \in 1..MaxLimit, sklearn \in BOOLEAN :
          retrieve_relevant_memories(u, query, limit, sklearn)

SpecMemory == Init /\ [][NextMemory]_vars

\* a retrieval was made with the primary similarity method available
Retrieved == call.fn = "retrieve_relevant_memories" /\ call.sklearn

ResultSet == {call.result[i] : i \in 1..Len(call.result)}

\* position of memory i in the result (0 when it is not in it)
Rank(i) ==
    IF i \in ResultSet
    THEN CHOOSE k \in 1..Len(call.result) : call.result[k] = i
    ELSE 0

\* the result is the caller's memories by descending score, cut to limit
TopByScore ==
    /\ call.raised = ""
    /\ Len(call.result) = Min(call.limit, Cardinality(MemoriesOf(call.user_id)))
    /\ ResultSet \subseteq MemoriesOf(call.user_id)
    /\ \A k \in 1..Len(call.result) : \A l \in k..Len(call.result) :
           call.scores[call.result[k]] >= call.scores[call.result[l]]
    /\ \A i \in MemoriesOf(call.user_id) \ ResultSet : \A k \in 1..Len(call.result) :
           call.scores[i] <= call.scores[call.result[k]]

\* C13: after store_memory, a retrieval with the stored key as query and
\* limit >= 1, the primary similarity method available, returns the caller's
\* memories by descending similarity x importance score cut to limit: never
\* more than limit entries, never another user's memory.
CE_C13 ==
    (/\ Retrieved
     /\ call.limit >= 1
     /\ \E i \in MemoriesOf(call.user_id) : user_memory[i].key = call.query)
    => TopByScore

\* the statement of C13 for the corpora that hold at least one term
C13_WithVocabulary ==
    (Retrieved /\ ~EmptyVocabulary(call.user_id, call.query)) => CE_C13

\* C14: with the primary similarity method available, a memory with a
\* strictly higher text similarity to the query is never ranked below one
\* with a strictly lower similarity, whatever their importance scores.
CE_C14 ==
    (Retrieved /\ call.raised = "" /\ call.similarities # <<>>) =>
        \A i, j \in MemoriesOf(call.user_id) :
            (call.similarities[i] > call.similarities[j] /\ Rank(j) # 0)
                => (Rank(i) # 0 /\ Rank(i) < Rank(j))

\* =========================================== best-effort subsystem failures
\* the commit of the EmotionLog row failed inside analyze_emotion
EmotionLogFailed == "emotion_log_commit" \in raised

\* C15: when persisting the EmotionLog row fails inside analyze_emotion, the
\* failure is caught there, analyze_emotion returns the emotion map without
\* raising, and the turn goes on to its emotion event and the later steps.
CE_C15 ==
    EmotionLogFailed =>
        /\ "NameError" \notin raised
        /\ events # <<>>
        /\ events[1].event = "emotion"
        /\ Count("error") = 0

\* check_triggers matched a custom automation of the caller and the update
\* of its usage statistics raised
UsageUpdateFailed ==
    /\ ct.called
    /\ MatchedCustom(user_id, user_prompt) # {}
    /\ raised \cap {"AttributeError", "automation_commit"} # {}

\* C16: a failure while persisting the usage statistics in check_triggers is
\* caught locally and gives an empty or partial trigger result; the turn gets
\* no error event and continues to memory retrieval and the reply.
CE_C16 ==
    UsageUpdateFailed =>
        /\ pc \notin {"except_yield", "except_save"}
        /\ Count("error") = 0
        /\ TurnOver => Count("data") > 0

\* ============================================================ registration
Usernames == {"amy", "bob", "al"}

\* len(username) of the names above
UsernameLen(username) == IF username = "al" THEN 2 ELSE 3

\* User.query.filter_by(username=username).first() is not None
ExistingUser(username) == \E i \in 1..Len(user) : user[i].username = username

\* another request's session holds a flushed, uncommitted row of this name:
\* the database makes the INSERT wait for the end of that transaction
InsertWaits(r, username) ==
    \E q \in Requests \ {r} :
        requests[q].pc = "commit" /\ requests[q].username = username

UniqueViolation_unconstrained(username) == FALSE

\* username = db.Column(..., unique=True): the INSERT of a second row with a
\* committed username raises IntegrityError
UniqueViolation(username) == ExistingUser(username)

Answer(r, status, error) ==
    requests' = [requests EXCEPT ![r].pc = "done", ![r].status = status,
                                 ![r].error = error]

registration_unchanged ==
    UNCHANGED <<tables, pc, locals, events, response, escaped, turn_no, raised,
                persisted, title_writes, faults, hist, call, turns>>

\* POST /register by an anonymous client
register(r, username, is_json) ==
    /\ requests[r].pc = "idle"
    /\ requests' = [requests EXCEPT ![r] = [NoRequest EXCEPT
                       !.route = "register", !.username = username,
                       !.is_json = is_json, !.pc = "validate"]]
    /\ UNCHANGED user
    /\ registration_unchanged

\* GET /admin/create-user/<username>/<password>
create_single_user(r, username) ==
    /\ requests[r].pc = "idle"
    /\ requests' = [requests EXCEPT ![r] = [NoRequest EXCEPT
                       !.route = "create_single_user", !.username = username,
                       !.is_json = TRUE, !.pc = "validate"]]
    /\ UNCHANGED user
    /\ registration_unchanged

\* validate_form_data(..., check_existing_user=True) of register, and the
\* length and existing-user tests of create_single_user
ValidateUser(r) ==
    /\ requests[r].pc = "validate"
    /\ IF UsernameLen(requests[r].username) < 3 \/ ExistingUser(requests[r].username)
       THEN Answer(r, IF requests[r].is_json THEN 400 ELSE 200, TRUE)
       ELSE requests' = [requests EXCEPT ![r].pc = "flush", ![r].passed_check = TRUE]
    /\ UNCHANGED user
    /\ registration_unchanged

\* db.session.add(new_user); db.session.flush()
FlushUser(r) ==
    /\ requests[r].pc = "flush"
    /\ ~InsertWaits(r, requests[r].username)
    /\ IF UniqueViolation(requests[r].username)
       THEN \* except: db.session.rollback(), error answer
            Answer(r, IF requests[r].is_json THEN 500 ELSE 200, TRUE)
       ELSE requests' = [requests EXCEPT ![r].pc = "commit"]
    /\ UNCHANGED user
    /\ registration_unchanged

\* db.session.commit()
CommitUser(r) ==
    /\ requests[r].pc = "commit"
    /\ \E commit_ok \in BOOLEAN :
         IF commit_ok
         THEN /\ user' = Append(user, [username |-> requests[r].username, request |-> r])
              /\ Answer(r, IF requests[r].route = "register" /\ ~requests[r].is_json
                           THEN 302 ELSE 200, FALSE)
         ELSE /\ Answer(r, IF requests[r].is_json THEN 500 ELSE 200, TRUE)
              /\ UNCHANGED user
    /\ registration_unchanged

NextRegister ==
    \E r \in Requests :
        \/ \E username \in Usernames, is_json \in BOOLEAN : register(r, username, is_json)
        \/ \E username \in Usernames : create_single_user(r, username)
        \/ ValidateUser(r)
        \/ FlushUser(r)
        \/ CommitUser(r)

SpecRegister == Init /\ [][NextRegister]_vars

\* rows of table user the request r created
CreatedBy(r) == {i \in 1..Len(user) : user[i].request = r}

\* C17: no two User rows have the same username, also when two requests for
\* one username (registrations, or a registration and an admin create-user)
\* both pass the existing-user check before either commits; the request that
\* loses ends in an error response and creates no user.
Thm_C17 ==
    /\ \A i, j \in 1..Len(user) : user[i].username = user[j].username => i = j
    /\ \A r \in Requests :
          /\ Cardinality(CreatedBy(r)) <= 1
          /\ requests[r].pc # "done" => CreatedBy(r) = {}
          /\ requests[r].pc = "done" => (requests[r].error <=> CreatedBy(r) = {})

\* a registration and an admin create-user request for one username both
\* passed the existing-user check; one created the user, the other answered
\* with an error
Wit_C17 ==
    \E r, q \in Requests :
        /\ requests[r].route = "register" /\ requests[q].route = "create_single_user"
        /\ requests[r].username = requests[q].username
        /\ requests[r].passed_check /\ requests[q].passed_check
        /\ requests[r].pc = "done" /\ requests[q].pc = "done"
        /\ requests[r].error # requests[q].error
        /\ Len(user) = 1

\* ======================================================== order of the steps
\* position of each step of generate_and_save in the order of its source
StepRank ==
    [s \in {"emotion", "automation", "memory", "proactive", "save_user",
            "store_important", "open_session", "prompt", "stream", "save_reply",
            "store_pattern", "title", "done"} |->
        CASE s = "emotion" -> 1
          [] s = "automation" -> 2
          [] s = "memory" -> 3
          [] s = "proactive" -> 4
          [] s = "save_user" -> 5
          [] s = "store_important" -> 6
          [] s = "open_session" -> 7
          [] s = "prompt" -> 8
          [] s = "stream" -> 9
          [] s = "save_reply" -> 10
          [] s = "store_pattern" -> 11
          [] s = "title" -> 12
          [] s = "done" -> 13]

\* a step of the running turn hands over to the next step of the order, or
\* leaves the order through the unavailable-session return or the handler
StepOrder ==
    (turn_no' = turn_no /\ pc' # pc) =>
        \/ pc \in DOMAIN StepRank /\ pc' \in DOMAIN StepRank
             /\ StepRank[pc'] = StepRank[pc] + 1
        \/ pc \in DOMAIN StepRank /\ pc' = "except_yield"
        \/ pc = "open_session" /\ pc' = "save_unavailable"
        \/ pc = "save_unavailable" /\ pc' \in {"done", "except_yield"}
        \/ pc = "except_yield" /\ pc' = "except_save"
        \/ pc = "except_save" /\ pc' = "done"

\* what a step does is done by the step of that name only
StepEffects ==
    turn_no' = turn_no =>
        /\ emotion_log' # emotion_log => pc = "emotion"
        /\ (ct'.called /\ ~ct.called) => pc = "automation"
        /\ relevant_memories' # relevant_memories => pc = "memory"
        /\ proactive_suggestions' # proactive_suggestions => pc = "proactive"
        /\ Len(SelectSeq(persisted', LAMBDA r : r.role = "user")) > Len(UserRows)
              => pc = "save_user"
        /\ Count("data")' > Count("data")
              => (pc \in {"open_session", "stream"} /\ ModelRows' = <<>>)
        /\ Len(SelectSeq(persisted', LAMBDA r : r.role = "model")) > Len(ModelRows)
              => pc \in {"save_reply", "save_unavailable", "except_save"}
        /\ \A cid \in 1..Len(conversation) :
              TitleWritten(cid) => (pc = "title" /\ is_first_exchange)

\* the LLM session of the turn was opened
SessionOpened ==
    pc \in {"prompt", "stream", "save_reply", "store_pattern", "title"}

\* C18: within one turn the steps run one after the other in the order
\* emotion scored (EmotionLog committed), automations checked, memories
\* retrieved, suggestions computed, user message persisted, history loaded,
\* LLM session opened, prompt composed, reply streamed, model reply persisted,
\* title generated (first exchange only), done; the user message is persisted
\* before the LLM session is opened and the model reply only after the last
\* fragment was emitted.
Thm_C18 ==
    /\ [][StepOrder /\ StepEffects]_vars
    /\ [](SessionOpened => UserRows # <<>>)
    /\ [](pc = "automation" => emotion_log # <<>>)
    /\ [](ModelRows # <<>> =>
            pc \in {"store_pattern", "title", "done", "except_yield", "except_save"})

\* a first turn went through every step: emotion logged, triggers checked,
\* user message and a reply of two fragments persisted, title written
Wit_C18 ==
    /\ TurnOver
    /\ raised = {}
    /\ emotion_log # <<>>
    /\ ct.called
    /\ Count("data") = 2
    /\ Len(persisted) = 2
    /\ persisted[1].role = "user" /\ persisted[2].role = "model"
    /\ title_writes[conversation_id] = 1

\* ==================================================== fragments and the reply
\* the text fragments sent to the client in this turn, in emission order
Fragments == SelectSeq(events, LAMBDA f : f.event = "data")

\* the fragments among them that came from the provider stream
GatewayFragments == SelectSeq(Fragments, LAMBDA f : f \notin ApologyFrames)

RECURSIVE Concat(_)
Concat(fs) == IF fs = <<>> THEN <<>> ELSE Head(fs).text \o Concat(Tail(fs))

\* every fragment of the provider stream is sent as one frame, in the order
\* the stream produced them; only a chunk with empty text gets no frame
InGatewayOrder ==
    /\ \A i \in 1..Len(GatewayFragments) : GatewayFragments[i].text = <<LowerChars[i]>>
    /\ Len(GatewayFragments) <= chunks_read
    /\ Len(GatewayFragments) >= chunks_read - 1

\* C19 (as stated): the content of the model message a turn persists is the
\* concatenation, in emission order, of all text fragments sent in the turn,
\* and the fragments are sent in the order the gateway produced them.
CE_C19 ==
    /\ \A i \in 1..Len(ModelRows) : ModelRows[i].content = Concat(Fragments)
    /\ InGatewayOrder

\* the stream raised after at least one of its fragments was sent
StreamBrokeOff == "stream" \in raised /\ GatewayFragments # <<>>

\* what the turn persists as its reply
ReplyContent == IF StreamBrokeOff THEN StreamErrorResponse ELSE Concat(Fragments)

\* C19 (amended): the model reply a turn persists is the concatenation, in
\* emission order, of all text fragments sent in the turn, unless the provider
\* stream raised after a fragment was sent: then it is the apology alone. A
\* turn without an error event persists at most this one model message; after
\* an error event the handler persists its own apology, which is not sent as
\* a fragment. Fragments are always sent in the order the gateway produced
\* them, one frame per non-empty fragment.
Thm_C19 ==
    /\ \A i \in 1..Len(ModelRows) :
          \/ ModelRows[i].content = ReplyContent
          \/ /\ Count("error") > 0
             /\ i = Len(ModelRows)
             /\ ModelRows[i].content = HandlerErrorMsg
    /\ Count("error") = 0 => Len(ModelRows) <= 1
    /\ InGatewayOrder

\* a turn without any failure streamed two fragments and persisted "ab"
Wit_C19 ==
    /\ TurnOver
    /\ raised = {}
    /\ Len(GatewayFragments) = 2
    /\ Len(ModelRows) = 1
    /\ ModelRows[1].content = <<"a", "b">>

\* ========================================================== execute_actions
MaxActions == 3

\* an action without a priority key
NoPriority == -1

ActionTypes == {"weather_update", "break_timer", "note"}

ActionDescriptors == [type : ActionTypes, priority : {NoPriority, 1, 2}]

ActionLists == UNION {[1..n -> ActionDescriptors] : n \in 0..MaxActions}

\* x.get('priority', 999)
PriorityOf(a) == IF a.priority = NoPriority THEN 999 ELSE a.priority

\* the actions taken in their input order, without sorting
sorted_actions_unsorted(actions, n) == [i \in 1..n |-> i]

\* sorted(actions, key=...): stable, ascending; works on the indices of actions
RECURSIVE InsertByPriority(_, _, _)
InsertByPriority(sorted, i, actions) ==
    IF sorted = <<>> THEN <<i>>
    ELSE IF PriorityOf(actions[Head(sorted)]) <= PriorityOf(actions[i])
    THEN <<Head(sorted)>> \o InsertByPriority(Tail(sorted), i, actions)
    ELSE <<i>> \o sorted

RECURSIVE sorted_actions(_, _)
sorted_actions(actions, n) ==
    IF n = 0 THEN <<>>
    ELSE InsertByPriority(sorted_actions(actions, n - 1), n, actions)

\* type tag of the record the handler of an action type returns
\* (_execute_single_action; an unknown type goes to handle_custom_action)
HandlerType(action_type) ==
    CASE action_type = "weather_update" -> "weather"
      [] action_type = "break_timer" -> "timer"
      [] OTHER -> "custom"

\* the record one pass of the loop body appends for the action at index i
ActionRecord(actions, raises, i) ==
    IF raises[i]
    THEN [type |-> "error", success |-> FALSE, action |-> i]
    ELSE [type |-> HandlerType(actions[i].type), success |-> TRUE, action |-> i]

\* the loop without its try/except: the first exception ends it
RECURSIVE RunActions_unguarded(_, _, _)
RunActions_unguarded(order, actions, raises) ==
    IF order = <<>> \/ raises[Head(order)] THEN <<>>
    ELSE <<ActionRecord(actions, raises, Head(order))>>
            \o RunActions_unguarded(Tail(order), actions, raises)

\* for action in sorted_actions: try ... except ...
RECURSIVE RunActions(_, _, _)
RunActions(order, actions, raises) ==
    IF order = <<>> THEN <<>>
    ELSE <<ActionRecord(actions, raises, Head(order))>>
            \o RunActions(Tail(order), actions, raises)

\* TaskAutomationManager.execute_actions(actions); raises[i] tells whether the
\* handler of the i-th action raises
execute_actions ==
    /\ call.fn = "execute_actions"
    /\ ~call.returned
    /\ call' = [call EXCEPT
                  !.returned = TRUE,
                  !.results = RunActions(sorted_actions(call.actions, Len(call.actions)),
                                         call.actions, call.raises)]
    /\ UNCHANGED <<tables, pc, locals, events, response, escaped, turn_no,
                   raised, persisted, title_writes, faults, hist, registration, turns>>

InitActions ==
    /\ conversation = <<>>
    /\ title_writes = <<>>
    /\ InitOther
    /\ \E actions \in ActionLists :
         \E raises \in [1..Len(actions) -> BOOLEAN] :
            call = [fn |-> "execute_actions", actions |-> actions, raises |-> raises,
                    returned |-> FALSE, results |-> <<>>]

NextActions == execute_actions

SpecActions == InitActions /\ [][NextActions]_vars

ResultPriority(k) == PriorityOf(call.actions[call.results[k].action])

\* C21: execute_actions returns its records in ascending order of the
\* actions' priority, a missing priority counting as 999 and actions of equal
\* priority keeping their input order; an action of a type outside the fixed
\* handler set yields the generic custom record with success true.
Thm_C21 ==
    call.returned =>
        /\ \A k, l \in 1..Len(call.results) :
              k < l =>
                 /\ ResultPriority(k) <= ResultPriority(l)
                 /\ ResultPriority(k) = ResultPriority(l)
                       => call.results[k].action < call.results[l].action
        /\ \A k \in 1..Len(call.results) :
              LET i == call.results[k].action
              IN (call.actions[i].type = "note" /\ ~call.raises[i]) =>
                    (call.results[k].type = "custom" /\ call.results[k].success)

\* an action without priority was given first, one of priority 2 second and
\* one of an unknown type with priority 1 last: the records come reversed
Wit_C21 ==
    /\ call.returned
    /\ Len(call.actions) = 3
    /\ call.actions[1].priority = NoPriority
    /\ call.actions[2].priority = 2
    /\ call.actions[3].priority = 1
    /\ call.actions[3].type = "note"
    /\ call.results[1].action = 3
    /\ call.results[1].type = "custom"
    /\ call.results[3].action = 1

\* ---------------------------------------------------------------- C22
\* what check_triggers has to return for the running turn
AllMatches ==
    CustomActions(user_id, user_prompt, 1) \o DefaultActions(user_prompt, 1)

\* C22: check_triggers returns the union without deduplication of all
\* matches: the action lists of every active custom automation of the caller
\* whose phrase occurs in the message, then those of every built-in trigger
\* occurring in it; inactive automations and those of other users contribute
\* nothing and keep their usage statistics.
CE_C22 ==
    (ct.called /\ ~Idle) =>
        /\ triggered_actions = AllMatches
        /\ "AttributeError" \notin raised

\* the statement of C22 for the calls in which no custom phrase is matched
C22_NoCustomMatch ==
    (ct.called /\ ~Idle /\ MatchedCustom(user_id, user_prompt) = {}) =>
        triggered_actions = AllMatches

\* ---------------------------------------------------------------- C23
\* an exception was raised inside the pass of generate_proactive_suggestions
PassRaised == "proactive_pass" \in raised

\* C23: an exception raised anywhere inside a generate_proactive_suggestions
\* pass is caught and the pass returns the empty list; the turn then emits no
\* proactive event and goes on to persist the user message and to produce
\* the reply.
Thm_C23 ==
    PassRaised =>
        /\ proactive_suggestions = <<>>
        /\ Count("proactive") = 0
        /\ pc \notin {"proactive", "emotion", "automation", "memory"}
        /\ raised = {"proactive_pass"} =>
              /\ pc \notin {"except_yield", "except_save"}
              /\ Count("error") = 0
              /\ (pc \notin {"save_user"}) => UserRows # <<>>
              /\ (TurnOver /\ full_bot_response # <<>>) => Len(ModelRows) = 1

\* the pass raised and nothing else failed: the turn ended with the user
\* message and a streamed reply persisted and without a proactive event
Wit_C23 ==
    /\ TurnOver
    /\ raised = {"proactive_pass"}
    /\ Count("proactive") = 0
    /\ Count("data") >= 1
    /\ Len(persisted) = 2

\* ======================================================= prompt preparation
MaxContext == 501

\* memory_context[:500]
PrefixLimit == 500

REALTIME_KEYWORDS ==
    {<<"w","e","a","t","h","e","r">>, <<"p","r","i","c","e">>, <<"c","o","s","t">>, <<"s","t","o","c","k">>, <<"t","e","m","p","e","r","a","t","u","r","e">>, <<"t","e","m","p">>, <<"n","e","w","s">>,
     <<"l","a","t","e","s","t">>, <<"c","u","r","r","e","n","t">>, <<"h","o","w"," ","m","u","c","h">>, <<"w","h","a","t"," ","i","s"," ","t","h","e"," ","t","i","m","e">>, <<"c","a","p","i","t","a","l"," ","o","f">>}

t_Weather_today == <<"W","e","a","t","h","e","r"," ","t","o","d","a","y">>

\* is_realtime_query(text)
is_realtime_query(text) == \E keyword \in REALTIME_KEYWORDS : Contains(keyword, Lower(text))

\* relevant_memories of the turn: none, one short row, one row with empty key
\* and value, one row whose line is longer than the limit
MemoryRows ==
    {<<>>,
     <<[key |-> <<"k">>, value |-> <<"v">>]>>,
     <<[key |-> <<>>, value |-> <<>>]>>,
     <<[key |-> <<"k">>, value |-> [i \in 1..(MaxContext - 3) |-> "x"]],
      [key |-> <<"k">>, value |-> <<"v">>]>>}

\* "\n".join([f"{key}: {value}" for m in relevant_memories])
RECURSIVE memory_context(_)
memory_context(ms) ==
    IF ms = <<>> THEN <<>>
    ELSE Head(ms).key \o <<":", " ">> \o Head(ms).value
         \o (IF Len(ms) > 1 THEN <<"\n">> ELSE <<>>) \o memory_context(Tail(ms))

\* the literal parts of the f-strings, one element each
PrefixOpen == <<"[Context from previous conversations: ">>
PrefixMood == <<"...]\n[Current mood: ", "{emotions}", "]\n\n">>
StressNote == <<"\n\n[Note: User seems stressed, please be supportive and helpful.]">>
HappyNote == <<"\n\n[Note: User is in a great mood today!]">>
SadNote == <<"\n\n[Note: User seems down, please be encouraging and empathetic.]">>

Truncated_whole(ctx) == ctx

\* memory_context[:500]
Truncated(ctx) == SubSeq(ctx, 1, Min(PrefixLimit, Len(ctx)))

\* context_prefix, when memory_context is not empty
context_prefix(ctx) ==
    IF ctx = <<>> THEN <<>> ELSE PrefixOpen \o Truncated(ctx) \o PrefixMood

\* the if / elif / elif chain over the emotion scores (in tenths)
EmotionNote(emotions) ==
    IF emotions.stress > 6 THEN StressNote
    ELSE IF emotions.happiness > 7 THEN HappyNote
    ELSE IF emotions.sadness > 6 THEN SadNote
    ELSE <<>>

enhanced_prompt(c) ==
    context_prefix(memory_context(c.memories)) \o c.user_prompt \o EmotionNote(c.emotions)

\* prompt_parts; an image that cannot be opened is left out
prompt_parts(c) ==
    IF c.image_data # "none"
    THEN IF c.image_data = "valid"
         THEN <<[text |-> enhanced_prompt(c), image |-> TRUE, realtime |-> FALSE]>>
         ELSE <<[text |-> enhanced_prompt(c), image |-> FALSE, realtime |-> FALSE]>>
    ELSE IF is_realtime_query(c.user_prompt)
    THEN <<[text |-> <<"Real-time information: '", "{context}", "'. User question: '">>
                        \o enhanced_prompt(c) \o <<"'">>,
            image |-> FALSE, realtime |-> TRUE]>>
    ELSE <<[text |-> enhanced_prompt(c), image |-> FALSE, realtime |-> FALSE]>>

PromptInputs ==
    [memories : MemoryRows,
     emotions : [stress : {0, 6, 7}, happiness : {0, 7, 8}, sadness : {0, 6, 7}],
     user_prompt : {t_hello, t_Weather_today},
     image_data : {"none", "valid", "corrupt"}]

\* lines 1214-1246 of generate_and_save, called with the locals of the turn
prepare_prompt ==
    /\ call.fn = "prepare_prompt"
    /\ ~call.returned
    /\ call' = [call EXCEPT !.returned = TRUE,
                            !.enhanced_prompt = enhanced_prompt(call.input),
                            !.prompt_parts = prompt_parts(call.input)]
    /\ UNCHANGED <<tables, pc, locals, events, response, escaped, turn_no,
                   raised, persisted, title_writes, faults, hist, registration, turns>>

InitPrompt ==
    /\ conversation = <<>>
    /\ title_writes = <<>>
    /\ InitOther
    /\ \E c \in PromptInputs :
         call = [fn |-> "prepare_prompt", input |-> c, returned |-> FALSE,
                 enhanced_prompt |-> <<>>, prompt_parts |-> <<>>]

NextPrompt == prepare_prompt

SpecPrompt == InitPrompt /\ [][NextPrompt]_vars

\* the prompt starts with the memory-context prefix
HasPrefix ==
    call.enhanced_prompt # <<>> /\ <<call.enhanced_prompt[1]>> = PrefixOpen

\* the characters of the memory context the prefix carries
PrefixContext ==
    LET k == CHOOSE k \in 1..Len(call.enhanced_prompt) :
                 <<call.enhanced_prompt[k]>> = SubSeq(PrefixMood, 1, 1)
    IN SubSeq(call.enhanced_prompt, 2, k - 1)

\* length of the prefix, literal parts included
PrefixLen == IF HasPrefix THEN Len(PrefixContext) + 1 + Len(PrefixMood) ELSE 0

\* the note the threshold rules choose
ChosenNote ==
    LET e == call.input.emotions
    IN IF e.stress > 6 THEN StressNote
       ELSE IF e.happiness > 7 THEN HappyNote
       ELSE IF e.sadness > 6 THEN SadNote ELSE <<>>

\* what holds of the prefix and of the parts under either order of segments
PrefixAndParts ==
    /\ HasPrefix <=> call.input.memories # <<>>
    /\ HasPrefix =>
          PrefixContext = SubSeq(memory_context(call.input.memories), 1,
                                 Min(500, Len(memory_context(call.input.memories))))
    /\ Len(call.prompt_parts) = 1
    /\ ~(call.prompt_parts[1].image /\ call.prompt_parts[1].realtime)
    /\ call.prompt_parts[1].image <=> call.input.image_data = "valid"
    /\ call.prompt_parts[1].realtime <=>
          (call.input.image_data = "none" /\ is_realtime_query(call.input.user_prompt))
    /\ Contains(call.enhanced_prompt, call.prompt_parts[1].text)

\* C24 (as stated): the prompt is the memory-context prefix (first 500
\* characters of the joined memory lines) iff memories were found, then the
\* emotional-state annotation chosen by the threshold rules, then the caller's
\* text; it carries either the image or the real-time string, never both.
CE_C24 ==
    call.returned =>
        /\ PrefixAndParts
        /\ SubSeq(call.enhanced_prompt, PrefixLen + 1, Len(call.enhanced_prompt))
              = ChosenNote \o call.input.user_prompt

\* C24 (amended): the prompt is the memory-context prefix (first 500
\* characters of the joined memory lines, then the mood) iff memories were
\* found, then the caller's text, then the annotation chosen by the rules
\* stress > 0.6, else happiness > 0.7, else sadness > 0.6, if any applies; it
\* carries either the image or the real-time string, never both.
Thm_C24 ==
    call.returned =>
        /\ PrefixAndParts
        /\ SubSeq(call.enhanced_prompt, PrefixLen + 1, Len(call.enhanced_prompt))
              = call.input.user_prompt \o ChosenNote

\* memories longer than the limit, a stressed user and a real-time query
\* without image: prefix cut at 500, text, stress note, wrapped in the
\* real-time string
Wit_C24 ==
    /\ call.returned
    /\ Len(memory_context(call.input.memories)) > 500
    /\ Len(PrefixContext) = 500
    /\ call.input.emotions.stress > 6
    /\ call.prompt_parts[1].realtime
    /\ SubSeq(call.enhanced_prompt, Len(call.enhanced_prompt), Len(call.enhanced_prompt))
          = StressNote

\* ======================================================= dropped connection
\* the generator is suspended at a yield: the frame it emitted last is the
\* last thing it did
Suspended ==
    /\ response = 200
    /\ events # <<>>
    /\ \/ pc = "automation"
       \/ pc = "memory" /\ LastEvent.event = "automation"
       \/ pc = "save_user" /\ LastEvent.event = "proactive"
       \/ pc = "save_unavailable"
       \/ pc = "stream"
       \/ pc = "save_reply" /\ "stream" \in raised
       \/ pc = "except_save"

\* the drop taken for an exception: the handler goes on to persist its apology
ClientDrop_caught ==
    /\ UNCHANGED others
    /\ Suspended
    /\ pc' = "except_save"
    /\ raised' = raised \cup {"GeneratorExit"}
    /\ UNCHANGED <<tables, locals, events, response, escaped, turn_no, hist,
                   persisted, title_writes, faults>>

\* the client closes the connection: the server closes the generator, which
\* gets GeneratorExit at the yield it is suspended at; `except Exception`
\* does not catch it
ClientDrop ==
    /\ UNCHANGED others
    /\ Suspended
    /\ pc' = "done"
    /\ raised' = raised \cup {"GeneratorExit"}
    /\ UNCHANGED <<tables, locals, events, response, escaped, turn_no, hist,
                   persisted, title_writes, faults>>

\* the database after GET / by user 1
InitDrop == InitTurns /\ conversation # <<>>

\* turns of user 1 on their conversation with a message that fires a built-in
\* trigger, each of which the client may drop
NextDrop ==
    \/ chat(1, 1, t_hi_Good_Morning)
    \/ Generator
    \/ ClientDrop

SpecDrop == InitDrop /\ [][NextDrop]_vars

Dropped == "GeneratorExit" \in raised

\* C26: when the client drops the connection at an emission point of a turn,
\* fragment delivery stops and the turn performs no further writes, while
\* every row committed before the drop stays as committed: nothing is rolled
\* back or deleted.
Thm_C26 ==
    /\ [][(Dropped' /\ turn_no' = turn_no) =>
             /\ tables' = tables
             /\ events' = events
             /\ persisted' = persisted
             /\ title_writes' = title_writes]_vars
    /\ [](Dropped => pc = "done")

\* the connection was dropped after the first fragment: the emotion row and
\* the user message stand, no reply was persisted
Wit_C26 ==
    /\ Dropped
    /\ Count("data") = 1
    /\ emotion_log # <<>>
    /\ Len(persisted) = 1
    /\ persisted[1].role = "user"
    /\ message = persisted


\* ==================================================== overlapping requests
\* Flask serves each POST /chat in a thread of its own; the generators of
\* two requests interleave between their database calls.  Every turn of
\* TurnIds runs the steps of generate_and_save on its own locals (turns[t])
\* and on the shared tables.  The prompt is t_hello: no automation phrase,
\* no keyword of step 5, no real-time keyword; calls succeed.

\* the database after GET / by each of the two users
InitOverlap ==
    /\ call = NoCall
    /\ conversation = <<[id |-> 1, user_id |-> 1, title |-> "New Conversation"],
                        [id |-> 2, user_id |-> 2, title |-> "New Conversation"]>>
    /\ title_writes = <<0, 0>>
    /\ InitOther

\* ids (table positions) of the rows of a conversation, in table order
MessageIdsOf(cid) ==
    LET ids == {i \in 1..Len(message) : message[i].conversation_id = cid}
        Nth[k \in 1..Cardinality(ids)] ==
            CHOOSE i \in ids : Cardinality({j \in ids : j < i}) = k - 1
    IN Nth

\* conversation.messages[:-1]
AllButLast(s) == IF s = <<>> THEN <<>> ELSE SubSeq(s, 1, Len(s) - 1)

Started(t) == turns[t].pc # "idle"
Running(t) == turns[t].pc \notin {"idle", "done"}

overlap_unchanged ==
    UNCHANGED <<task_automation, pc, locals, events, response, escaped,
                turn_no, raised, persisted, faults, hist, call, registration>>

\* chat(): the checks of the route, then the generator is handed to the
\* server; a request that arrives while another turn of the same
\* conversation is running overlaps it
\* (turn ids are handed out in the order the requests arrive)
turn_chat(t, u, cid) ==
    /\ turns[t].pc = "idle"
    /\ \A s \in TurnIds : s < t => Started(s)
    /\ LET ok == HasConversation(cid) /\ conversation[cid].user_id = u
           meets(s) == s # t /\ Running(s) /\ turns[s].conversation_id = cid
       IN turns' = [s \in TurnIds |->
                      IF s = t
                      THEN [NoTurn EXCEPT !.pc = IF ok THEN "emotion" ELSE "done",
                                          !.user_id = u,
                                          !.conversation_id = cid,
                                          !.overlapped = ok /\ \E r \in TurnIds : meets(r)]
                      ELSE IF ok /\ meets(s)
                      THEN [turns[s] EXCEPT !.overlapped = TRUE]
                      ELSE turns[s]]
    /\ UNCHANGED <<conversation, message, user_memory, emotion_log, title_writes>>
    /\ overlap_unchanged

\* is_first_exchange, 1. analyze_emotion and the emotion event, and
\* 2. check_triggers, which reads the automations of the caller only
turn_emotion(t) ==
    /\ turns[t].pc = "emotion"
    /\ emotion_log' = Append(emotion_log,
           [user_id |-> turns[t].user_id, conversation_id |-> turns[t].conversation_id])
    /\ turns' = [turns EXCEPT
           ![t].is_first_exchange = (Len(MessageIdsOf(turns[t].conversation_id)) = 0),
           ![t].events = Append(@, Frame("emotion", <<>>)),
           ![t].pc = "memory"]
    /\ UNCHANGED <<conversation, message, user_memory, title_writes>>
    /\ overlap_unchanged

\* 3. retrieve_relevant_memories: the top DefaultLimit of the caller's rows
\* (4. the proactive pass counts the caller's messages of the last hours
\* against work_session_threshold, which these turns never reach)
turn_memory(t) ==
    /\ turns[t].pc = "memory"
    /\ \E S \in SUBSET MemoriesOf(turns[t].user_id) :
         /\ Cardinality(S) = Min(DefaultLimit, Cardinality(MemoriesOf(turns[t].user_id)))
         /\ turns' = [turns EXCEPT ![t].relevant_memories = S,
                                   ![t].pc = "save_user"]
    /\ UNCHANGED <<conversation, message, user_memory, emotion_log, title_writes>>
    /\ overlap_unchanged

\* save_message_to_db(conversation_id, 'user', user_prompt)
turn_save_user(t) ==
    /\ turns[t].pc = "save_user"
    /\ message' = Append(message, MessageRow(turns[t].conversation_id, "user", t_hello))
    /\ turns' = [turns EXCEPT ![t].user_row = Len(message) + 1,
                              ![t].pc = "history"]
    /\ UNCHANGED <<conversation, user_memory, emotion_log, title_writes>>
    /\ overlap_unchanged

\* history = conversation.messages[:-1]: the relationship is loaded anew
\* after the commit of save_message_to_db; the session is opened with it,
\* and 7./8. the sentiment event and the streamed reply follow (the
\* provider call touches no table)
turn_history(t) ==
    /\ turns[t].pc = "history"
    /\ turns' = [turns EXCEPT
           ![t].history = AllButLast(MessageIdsOf(turns[t].conversation_id)),
           ![t].full_bot_response = <<"a">>,
           ![t].events = @ \o <<Frame("sentiment", <<>>), Frame("data", <<"a">>)>>,
           ![t].pc = "save_reply"]
    /\ UNCHANGED <<conversation, message, user_memory, emotion_log, title_writes>>
    /\ overlap_unchanged

\* save_message_to_db(conversation_id, 'model', full_bot_response)
turn_save_reply(t) ==
    /\ turns[t].pc = "save_reply"
    /\ message' = Append(message,
           MessageRow(turns[t].conversation_id, "model", turns[t].full_bot_response))
    /\ turns' = [turns EXCEPT ![t].pc = "store_pattern"]
    /\ UNCHANGED <<conversation, user_memory, emotion_log, title_writes>>
    /\ overlap_unchanged

\* 9. store_memory('interaction_pattern', ...)
turn_store_pattern(t) ==
    /\ turns[t].pc = "store_pattern"
    /\ user_memory' = StoredMemory(turns[t].user_id, "interaction_pattern", "query_type",
           [query |-> t_hello,
            response_length |-> Len(turns[t].full_bot_response),
            had_automation |-> FALSE,
            used_memory |-> (turns[t].relevant_memories # {})], 10)
    /\ turns' = [turns EXCEPT ![t].pc = "title"]
    /\ UNCHANGED <<conversation, message, emotion_log, title_writes>>
    /\ overlap_unchanged

\* 10. the title, when the turn found the conversation empty
turn_title(t) ==
    /\ turns[t].pc = "title"
    /\ IF turns[t].is_first_exchange /\ turns[t].full_bot_response # <<>>
       THEN /\ conversation' = [conversation EXCEPT ![turns[t].conversation_id].title = "T"]
            /\ title_writes' = [title_writes EXCEPT ![turns[t].conversation_id] = @ + 1]
       ELSE UNCHANGED <<conversation, title_writes>>
    /\ turns' = [turns EXCEPT ![t].pc = "done"]
    /\ UNCHANGED <<message, user_memory, emotion_log>>
    /\ overlap_unchanged

NextOverlap ==
    \E t \in TurnIds :
        \/ \E u \in Users, cid \in 1..2 : turn_chat(t, u, cid)
        \/ turn_emotion(t)
        \/ turn_memory(t)
        \/ turn_save_user(t)
        \/ turn_history(t)
        \/ turn_save_reply(t)
        \/ turn_store_pattern(t)
        \/ turn_title(t)

SpecOverlap == InitOverlap /\ [][NextOverlap]_vars


\* ---------------------------------------------------------------- C27
\* the rows of the conversation that were there before the turn's own
\* user message
PriorTo(t) ==
    LET ids == MessageIdsOf(turns[t].conversation_id)
    IN SelectSeq(ids, LAMBDA i : i < turns[t].user_row)

HistoryLoaded(t) ==
    turns[t].pc \in {"save_reply", "store_pattern", "title", "done"}
    /\ turns[t].user_row > 0

InSeq(x, s) == \E k \in 1..Len(s) : s[k] = x

\* C27 as stated: the history handed to the provider is exactly the
\* conversation's messages from before this turn's own user message, and
\* never holds that message -- also for turns that overlap on one
\* conversation.
CE_C27 ==
    \A t \in TurnIds :
        HistoryLoaded(t) =>
            /\ turns[t].history = PriorTo(t)
            /\ ~InSeq(turns[t].user_row, turns[t].history)

\* C27, what the code does keep: a turn that no other turn of its
\* conversation overlapped gets exactly the earlier messages
C27_Sequential ==
    \A t \in TurnIds :
        (HistoryLoaded(t) /\ ~turns[t].overlapped) =>
            /\ turns[t].history = PriorTo(t)
            /\ ~InSeq(turns[t].user_row, turns[t].history)

\* ---------------------------------------------------------------- C28
\* C28 as stated: the title of a conversation is written at most once,
\* also when two turns overlap on the still empty conversation.
CE_C28 == \A cid \in 1..Len(conversation) : title_writes[cid] <= 1

\* C28, what the code does keep: a conversation none of whose turns
\* overlapped has its title written at most once
C28_Sequential ==
    \A cid \in 1..Len(conversation) :
        (\A t \in TurnIds : turns[t].conversation_id = cid => ~turns[t].overlapped)
            => title_writes[cid] <= 1


\* ---------------------------------------------------------------- C25
\* what the tables hold for one user: the rows of the user's
\* conversations, memories and emotion log, the titles of the user's
\* conversations and how often they were written
RowsOfUser(u) ==
    [messages |-> SelectSeq(message,
                     LAMBDA r : conversation[r.conversation_id].user_id = u),
     memories |-> SelectSeq(user_memory, LAMBDA r : r.user_id = u),
     emotions |-> SelectSeq(emotion_log, LAMBDA r : r.user_id = u),
     titles   |-> [cid \in {c \in 1..Len(conversation) : conversation[c].user_id = u}
                      |-> <<conversation[cid].title, title_writes[cid]>>]]

\* the locals of a turn that the client and the tables can tell apart
\* (user_row and the ids in history are positions in the shared table)
Outcome(t) ==
    [is_first_exchange |-> turns[t].is_first_exchange,
     used_memory |-> (turns[t].relevant_memories # {}),
     history |-> [k \in 1..Len(turns[t].history) |-> message[turns[t].history[k]]],
     full_bot_response |-> turns[t].full_bot_response,
     events |-> turns[t].events]

\* the same, for the first turn of user u run with no other request
SoloOutcome ==
    [is_first_exchange |-> TRUE,
     used_memory |-> FALSE,
     history |-> <<>>,
     full_bot_response |-> <<"a">>,
     events |-> <<Frame("emotion", <<>>), Frame("sentiment", <<>>), Frame("data", <<"a">>)>>]

SoloRows(u, cid) ==
    [messages |-> <<MessageRow(cid, "user", t_hello), MessageRow(cid, "model", <<"a">>)>>,
     memories |-> <<[user_id |-> u, memory_type |-> "interaction_pattern",
                     key |-> "query_type",
                     value |-> [query |-> t_hello, response_length |-> 1,
                                had_automation |-> FALSE, used_memory |-> FALSE],
                     importance_score |-> 10]>>,
     emotions |-> <<[user_id |-> u, conversation_id |-> cid]>>,
     titles   |-> [c \in {cid} |-> <<"T", 1>>]]

\* turn t is the only request its user has made
OnlyTurnOfUser(t) ==
    \A s \in TurnIds : (s # t /\ Started(s)) => turns[s].user_id # turns[t].user_id

\* C25: turns of different users on their own conversations do not
\* affect each other: a step of one turn leaves the rows of every other
\* user and the locals of every other turn as they were; what a turn
\* reads into its history and its memories are rows of its own user; and
\* a user's only turn ends with the events, the locals and the rows it
\* ends with when it runs alone, whatever the turns of the other user did
\* in between.
Thm_C25 ==
    /\ [][\A t \in TurnIds :
            turns'[t].pc # turns[t].pc =>
                /\ \A u \in Users \ {turns'[t].user_id} : RowsOfUser(u)' = RowsOfUser(u)
                /\ \A s \in TurnIds \ {t} :
                       turns[s].user_id # turns'[t].user_id => turns'[s] = turns[s]]_vars
    /\ [](\A t \in TurnIds :
            /\ turns[t].relevant_memories \subseteq 1..Len(user_memory)
            /\ \A i \in turns[t].relevant_memories :
                   user_memory[i].user_id = turns[t].user_id
            /\ \A k \in 1..Len(turns[t].history) :
                   message[turns[t].history[k]].conversation_id = turns[t].conversation_id
            /\ (turns[t].pc = "done" /\ turns[t].conversation_id = turns[t].user_id
                   /\ turns[t].user_row > 0 /\ OnlyTurnOfUser(t)) =>
                   /\ Outcome(t) = SoloOutcome
                   /\ RowsOfUser(turns[t].user_id)
                          = SoloRows(turns[t].user_id, turns[t].conversation_id))

\* C25 witness: the only turns of two different users overlapped (both
\* were running at once, each had saved its user message before the
\* other had finished) and both are done
Wit_C25 ==
    /\ turns[1].pc = "done" /\ turns[2].pc = "done"
    /\ turns[1].user_id # turns[2].user_id
    /\ turns[1].user_row > 0 /\ turns[2].user_row > 0
    /\ message[1].role = "user" /\ message[2].role = "user"
    /\ message[1].conversation_id # message[2].conversation_id


\* ---------------------------------------------------------------- C29
\* C29: the sum of the four raw scores is strictly positive for every
\* polarity in [-1,1] and subjectivity in [0,1], so analyze_emotion always
\* divides by it: what it returns is the raw map divided by the sum, never
\* the raw map itself (unless the sum is exactly 1).
Thm_C29 ==
    (call.fn = "analyze_emotion" /\ call.returned) =>
        LET e == RawEmotions(call.text, call.polarity, call.subjectivity)
        IN /\ call.total = Total(e)
           /\ ~RLeq(call.total, Zero)
           /\ call.result = [happiness |-> RDiv(e.happiness, call.total),
                             stress |-> RDiv(e.stress, call.total),
                             neutral |-> RDiv(e.neutral, call.total),
                             confidence |-> RDiv(e.confidence, call.total)]
           /\ call.total # One => call.result # e

\* C29 witness: the smallest sum -- polarity -1 (neutral is 0), subjectivity
\* 0 and a text without any indicator word -- and the call returned
Wit_C29 ==
    /\ call.fn = "analyze_emotion"
    /\ call.returned
    /\ call.text = t_empty
    /\ call.polarity = RNeg(One)
    /\ call.subjectivity = Zero
    /\ call.result.neutral = Zero
    /\ call.result.stress = One


\* ====================================================== username validation
\* validate_username(username), called directly with a string

\* longest of the short names tried
MaxName == 4

\* len(username) > 50
NameLimit == 50

NameChars == {"a", "Z", "7", "_", " ", "-"}

WhitespaceChars == {" ", "\t", "\n"}

Repeat(c, n) == [i \in 1..n |-> c]

\* every string over NameChars of up to MaxName characters, and names
\* around the upper length limit, bare and padded with blanks
NameInputs ==
    UNION {[1..n -> NameChars] : n \in 0..MaxName}
    \cup {Repeat("a", n) : n \in (NameLimit - 1)..(NameLimit + 1)}
    \cup {<<" ">> \o Repeat("a", n) \o <<" ">> : n \in NameLimit..(NameLimit + 1)}
    \cup {<<"a", "-">> \o Repeat("a", NameLimit)}

\* str.strip()
RECURSIVE LStrip(_)
LStrip(s) == IF s # <<>> /\ Head(s) \in WhitespaceChars THEN LStrip(Tail(s)) ELSE s

RECURSIVE RStrip(_)
RStrip(s) ==
    IF s # <<>> /\ s[Len(s)] \in WhitespaceChars
    THEN RStrip(SubSeq(s, 1, Len(s) - 1)) ELSE s

Strip(s) == RStrip(LStrip(s))

\* str.isalpha() of one of the characters above
IsAlpha(c) == \E i \in 1..26 : c = UpperChars[i] \/ c = LowerChars[i]

IsDigit(c) == c \in {"0", "1", "2", "3", "4", "5", "6", "7", "8", "9"}

\* re.match(r'^[a-zA-Z0-9_]+$', username)
MatchesWord(s) ==
    /\ s # <<>>
    /\ \A i \in 1..Len(s) : IsAlpha(s[i]) \/ IsDigit(s[i]) \/ s[i] = "_"

\* the codes of the list validate_username returns, or the exception that
\* leaves it: username[0] of the stripped name is evaluated in every call
\* that passed the `not username` test
validate_username(username) ==
    IF username = <<>>
    THEN [raised |-> "", errors |-> <<"REQUIRED">>]
    ELSE LET name == Strip(username)
             too_short == IF Len(name) < 3 THEN <<"TOO_SHORT">> ELSE <<>>
             too_long == IF Len(name) > NameLimit THEN <<"TOO_LONG">> ELSE <<>>
             characters == IF ~MatchesWord(name) THEN <<"INVALID_CHARACTERS">> ELSE <<>>
         IN IF name = <<>>
            THEN [raised |-> "IndexError", errors |-> <<>>]
            ELSE [raised |-> "",
                  errors |-> too_short \o too_long \o characters
                             \o (IF ~IsAlpha(name[1]) THEN <<"INVALID_START">> ELSE <<>>)]

\* a direct call of validate_username
call_validate_username ==
    /\ call.fn = "validate_username"
    /\ ~call.returned
    /\ LET r == validate_username(call.username)
       IN call' = [call EXCEPT !.returned = TRUE, !.raised = r.raised,
                               !.errors = r.errors]
    /\ UNCHANGED <<tables, pc, locals, events, response, escaped, turn_no,
                   raised, persisted, title_writes, faults, hist, registration, turns>>

InitUsername ==
    /\ conversation = <<>>
    /\ title_writes = <<>>
    /\ InitOther
    /\ \E n \in NameInputs :
         call = [fn |-> "validate_username", username |-> n, returned |-> FALSE,
                 raised |-> "", errors |-> <<>>]

NextUsername == call_validate_username

SpecUsername == InitUsername /\ [][NextUsername]_vars

\* the name the claim calls acceptable
Acceptable(username) ==
    LET name == Strip(username)
    IN /\ Len(name) >= 3 /\ Len(name) <= 50
       /\ \A i \in 1..Len(name) : IsAlpha(name[i]) \/ IsDigit(name[i]) \/ name[i] = "_"
       /\ name # <<>> /\ IsAlpha(name[1])

\* C30 as stated: for every string, the empty one and those of whitespace
\* only included, validate_username returns a list without raising, and the
\* list is empty exactly when the stripped name has 3 to 50 characters,
\* all letters, digits or underscores, the first a letter.
CE_C30 ==
    (call.fn = "validate_username" /\ call.returned) =>
        /\ call.raised = ""
        /\ (call.errors = <<>>) <=> Acceptable(call.username)

\* C30, what the code does keep: for every string that is empty or has a
\* character other than whitespace
C30_NonBlank ==
    (call.fn = "validate_username" /\ call.returned
        /\ (call.username = <<>> \/ Strip(call.username) # <<>>)) =>
        /\ call.raised = ""
        /\ (call.errors = <<>>) <=> Acceptable(call.username)

====
